---- MODULE Spec2Model ----
(***************************************************************************)
(* State-machine model of the stream and rooting machinery of spiderfire:  *)
(*   - runtime/src/globals/streams/readable/{mod,reader,controller}.rs     *)
(*   - runtime/src/globals/streams/transform_stream.rs                     *)
(*   - ion/src/context.rs                                                  *)
(* Every Rust function is an operator over a "world" record w that holds   *)
(* the objects it can reach; an action applies one externally callable     *)
(* operation (a JS method, a promise reaction) to the current world.       *)
(***************************************************************************)
EXTENDS Integers, Sequences, FiniteSets, TLC

VARIABLES stream, controller, readers, reads, source, ghost, ts, cx

vars == <<stream, controller, readers, reads, source, ghost, ts, cx>>

(* ------------------------------ bounds --------------------------------- *)
(* Bound on the calls that add something to a run: readers created, read()
   calls, chunks enqueued and invocations of the pull algorithm. *)
MaxCalls == 4

(* Bounds on the slots rooted and on the Contexts made in a run *)
MaxRoots == 3
MaxContexts == 2

(* Bound on what a run of the event loop makes: Contexts and rooted slots
   together *)
MaxAw == 9

(* ------------------------------ values --------------------------------- *)
NoExc == "ok"
NoError == "none"
Undefined == 0

UserErrors == {"e1", "e2"}

E_CannotCloseStream == "Error: Cannot Close Stream"
E_CannotErrorStream == "Error: Cannot Error Stream"
E_CannotAddRead == "Error: Cannot Add Read Request to Read Queue"
E_StreamLocked == "TypeError: ReadableStream is locked."
E_ModeByob == "TypeError: Mode must be 'byob' or must not exist."
E_NewLocked == "TypeError: New readers cannot be initialised for locked streams."
E_DefaultLocked == "TypeError: Cannot create DefaultReader from locked stream."
E_ByobLocked == "TypeError: Cannot create BYOBReader from locked stream."
E_ByobDefault == "TypeError: Cannot create BYOBReader from DefaultController"
E_AlreadyReleased == "TypeError: Reader has already been released."
E_ReleasedReader == "TypeError: Released Reader"
E_HasBeenReleased == "TypeError: Reader has been released."
E_CannotClose == "TypeError: Cannot Close Stream"
E_CannotEnqueue == "TypeError: Cannot Enqueue to Stream"
E_SizeRange == "RangeError: size out of range"
E_NeedDefault == "TypeError: Reader should have default reader."
E_BufferEmpty == "TypeError: Buffer must contain bytes."
E_ChunkEmpty == "TypeError: Chunk must contain bytes."
E_Detached == "TypeError: Chunk must not be detached and not shared."
E_ClosedByRequest == "TypeError: Stream closed by request."
E_PendingPullInto == "TypeError: Pending Pull Into Not Empty"
E_CannotCloseByte == "TypeError: Cannot Close Byte Stream Controller"

TypeErrors ==
  {E_StreamLocked, E_ModeByob, E_NewLocked, E_DefaultLocked, E_ByobLocked,
   E_ByobDefault, E_AlreadyReleased, E_ReleasedReader, E_HasBeenReleased,
   E_CannotClose, E_CannotEnqueue, E_NeedDefault, E_BufferEmpty, E_ChunkEmpty,
   E_Detached, E_ClosedByRequest, E_PendingPullInto, E_CannotCloseByte}

ErrorKind(e) ==
  IF e \in TypeErrors THEN "Type"
  ELSE IF e = E_SizeRange THEN "Range"
  ELSE IF e \in UserErrors THEN "User"
  ELSE "Normal"

(* ------------------------------ promises ------------------------------- *)
NewPromise == [st |-> "pending", value |-> Undefined, done |-> FALSE, err |-> NoError]

(* Promise::resolve / Promise::reject: settling an already settled promise
   has no effect. *)
Resolve(p, v, d) ==
  IF p.st = "pending" THEN [p EXCEPT !.st = "fulfilled", !.value = v, !.done = d] ELSE p

Reject(p, e) ==
  IF p.st = "pending" THEN [p EXCEPT !.st = "rejected", !.err = e] ELSE p

InSeq(x, s) == \E i \in DOMAIN s : s[i] = x

ResolveAll(rds, reqs, v, d) ==
  [i \in DOMAIN rds |-> IF InSeq(i, reqs) THEN Resolve(rds[i], v, d) ELSE rds[i]]

RejectAll(rds, reqs, e) ==
  [i \in DOMAIN rds |-> IF InSeq(i, reqs) THEN Reject(rds[i], e) ELSE rds[i]]

(* ------------------------------ world ---------------------------------- *)
World ==
  [stream |-> stream, controller |-> controller, readers |-> readers,
   reads |-> reads, source |-> source, ghost |-> ghost, exc |-> NoExc]

Throw(w, e) == [w EXCEPT !.exc = e]

(* ReadableStream::get_locked *)
get_locked(w) == w.stream.reader_kind # "None"

(* ReadableStream::get_reader: index of the attached reader, 0 for None *)
get_reader(w) == IF w.stream.reader_kind = "None" THEN 0 ELSE w.stream.reader_object

(* ReadableStream::close *)
ReadableStream_close(w) ==
  IF w.stream.state # "Readable" THEN Throw(w, E_CannotCloseStream)
  ELSE LET w1 == [w EXCEPT !.stream.state = "Closed"]
           r == get_reader(w1)
       IN IF r = 0 THEN w1
          ELSE [w1 EXCEPT !.readers[r].closed = Resolve(@, Undefined, FALSE),
                          !.reads = ResolveAll(w1.reads, w1.readers[r].requests, Undefined, TRUE),
                          !.readers[r].requests = <<>>]

(* ReadableStream::error with the rejection of the outstanding read requests
   left out: only the closed promise learns of the error. *)
ReadableStream_error_quiet(w, e) ==
  IF w.stream.state # "Readable" THEN Throw(w, E_CannotErrorStream)
  ELSE LET w1 == [w EXCEPT !.stream.state = "Errored", !.stream.error = e]
           r == get_reader(w1)
       IN IF r = 0 THEN w1
          ELSE [w1 EXCEPT !.readers[r].closed = Reject(@, e)]

(* ReadableStream::error *)
ReadableStream_error(w, e) ==
  IF w.stream.state # "Readable" THEN Throw(w, E_CannotErrorStream)
  ELSE LET w1 == [w EXCEPT !.stream.state = "Errored", !.stream.error = e]
           r == get_reader(w1)
       IN IF r = 0 THEN w1
          ELSE [w1 EXCEPT !.readers[r].closed = Reject(@, e),
                          !.reads = RejectAll(w1.reads, w1.readers[r].requests, e),
                          !.readers[r].requests = <<>>]

(* DefaultController::get_state / ByteStreamController::get_state *)
get_state(w) == w.stream.state

(* can_close_or_enqueue that looks at close_requested only *)
can_close_or_enqueue_open(w) == ~w.controller.close_requested

(* DefaultController::can_close_or_enqueue / ByteStreamController::can_close_or_enqueue *)
can_close_or_enqueue(w) == get_state(w) = "Readable" /\ ~w.controller.close_requested

(* DefaultController::should_call_pull *)
Default_should_call_pull(w) ==
  IF ~can_close_or_enqueue(w) \/ ~w.controller.started THEN FALSE
  ELSE IF w.stream.reader_kind = "Default" /\ Len(w.readers[get_reader(w)].requests) > 0 THEN TRUE
  ELSE get_state(w) = "Readable" /\ w.controller.high_water_mark > w.controller.queue_size

(* The call of the user's pull algorithm and what is done with its result:
   a returned promise gets the reactions, any other value is replaced by a
   fresh promise that nobody settles, an exception propagates to the caller. *)
CallPull(w, po) ==
  LET w1 == [w EXCEPT !.ghost.pullCalls = @ + 1] IN
  CASE po = "throw" -> Throw(w1, "e_pull")
    [] po = "promise" -> [w1 EXCEPT !.source.pulls = @ \cup {w1.ghost.pullCalls}]
    [] OTHER -> w1

(* DefaultController::pull_if_needed without the test of the pulling flag *)
Default_pull_if_needed_reentrant(w, po) ==
  IF ~Default_should_call_pull(w) THEN w
  ELSE LET w1 == [w EXCEPT !.controller.pulling = TRUE]
       IN IF w1.controller.pull THEN CallPull(w1, po) ELSE w1

(* DefaultController::pull_if_needed *)
Default_pull_if_needed(w, po) ==
  IF ~Default_should_call_pull(w) THEN w
  ELSE IF w.controller.pulling THEN [w EXCEPT !.controller.pull_again = TRUE]
  ELSE LET w1 == [w EXCEPT !.controller.pulling = TRUE]
       IN IF w1.controller.pull THEN CallPull(w1, po) ELSE w1

(* DefaultController::error_internal that keeps the algorithm references *)
Default_error_internal_keeps(w, e) ==
  IF get_state(w) = "Readable"
  THEN ReadableStream_error(
         [w EXCEPT !.controller.queue = <<>>, !.controller.queue_size = 0], e)
  ELSE w

(* DefaultController::error_internal that leaves the queue as it is *)
Default_error_internal_keeps_queue(w, e) ==
  IF get_state(w) = "Readable"
  THEN ReadableStream_error(
         [w EXCEPT !.controller.pull = FALSE, !.controller.cancel = FALSE,
                   !.controller.size = FALSE], e)
  ELSE w

(* DefaultController::error_internal *)
Default_error_internal(w, e) ==
  IF get_state(w) = "Readable"
  THEN ReadableStream_error(
         [w EXCEPT !.controller.queue = <<>>, !.controller.queue_size = 0,
                   !.controller.pull = FALSE, !.controller.cancel = FALSE,
                   !.controller.size = FALSE], e)
  ELSE w

(* DefaultController::get_desired_size; Closed gives 0, Errored gives null *)
Default_get_desired_size(w) ==
  CASE get_state(w) = "Readable" -> w.controller.high_water_mark - w.controller.queue_size
    [] get_state(w) = "Closed" -> 0
    [] OTHER -> -1000

(* DefaultController::close *)
Default_close(w) ==
  IF can_close_or_enqueue(w)
  THEN LET w1 == IF w.controller.queue = <<>>
                 THEN [w EXCEPT !.controller.close_requested = TRUE] ELSE w
       IN ReadableStream_close(
            [w1 EXCEPT !.controller.pull = FALSE, !.controller.cancel = FALSE,
                       !.controller.size = FALSE])
  ELSE Throw(w, E_CannotClose)

(* Outcomes of the strategy's size algorithm other than a size *)
SizeThrows == -1
SizeOutOfRange == -2

(* DefaultController::enqueue that refuses the chunk when the queue is full *)
Default_enqueue_enforcing(w, chunk, so, po) ==
  IF can_close_or_enqueue(w) /\ w.controller.high_water_mark > w.controller.queue_size
  THEN [w EXCEPT !.controller.queue = Append(@, <<chunk, 1>>),
                 !.controller.queue_size = @ + 1]
  ELSE Throw(w, E_CannotEnqueue)

(* DefaultController::enqueue that queues the chunk even when a read request
   is outstanding *)
Default_enqueue_queues(w, chunk, so, po) ==
  IF can_close_or_enqueue(w)
  THEN LET res == IF w.controller.size THEN so ELSE 1 IN
       IF res < 0 THEN Default_error_internal(w, "e_size")
       ELSE [w EXCEPT !.controller.queue = Append(@, <<chunk, res>>),
                      !.controller.queue_size = @ + res]
  ELSE Throw(w, E_CannotEnqueue)

(* DefaultController::enqueue.  so is the outcome of the size algorithm: a
   size, SizeThrows, or SizeOutOfRange (a value the u64 conversion rejects). *)
Default_enqueue(w, chunk, so, po) ==
  IF can_close_or_enqueue(w)
  THEN LET r == get_reader(w) IN
       IF w.stream.reader_kind = "Default" /\ w.readers[r].requests # <<>>
       THEN LET req == Head(w.readers[r].requests) IN
            [w EXCEPT !.readers[r].requests = Tail(@),
                      !.reads[req] = Resolve(@, chunk, FALSE)]
       ELSE LET w1 == IF w.controller.size THEN [w EXCEPT !.ghost.sizeCalls = @ + 1] ELSE w
                res == IF w.controller.size THEN so ELSE 1
            IN CASE res = SizeThrows -> Default_error_internal(w1, "e_size")
                 [] res = SizeOutOfRange -> Default_error_internal(w1, E_SizeRange)
                 [] OTHER ->
                      Default_pull_if_needed(
                        [w1 EXCEPT !.controller.queue = Append(@, <<chunk, res>>),
                                   !.controller.queue_size = @ + res], po)
  ELSE Throw(w, E_CannotEnqueue)

(* ---------------------- ByteStream controller -------------------------- *)
(* A queue entry is <<buffer, offset, length>>; a PullIntoDescriptor is a
   record of its length, filled, element and kind fields. *)
Min(a, b) == IF a < b THEN a ELSE b

PANIC == "panic: unwrap on None"

(* ByteStreamController::should_call_pull *)
ByteStream_should_call_pull(w) ==
  IF ~can_close_or_enqueue(w) \/ ~w.controller.started THEN FALSE
  ELSE IF get_reader(w) # 0 /\ Len(w.readers[get_reader(w)].requests) > 0 THEN TRUE
  ELSE get_state(w) = "Readable" /\ w.controller.high_water_mark > w.controller.queue_size

(* ByteStreamController::pull_if_needed *)
ByteStream_pull_if_needed(w, po) ==
  IF ByteStream_should_call_pull(w)
  THEN IF w.controller.pulling THEN [w EXCEPT !.controller.pull_again = TRUE]
       ELSE LET w1 == [w EXCEPT !.controller.pulling = TRUE]
            IN IF w1.controller.pull THEN CallPull(w1, po) ELSE w1
  ELSE w

(* ByteStreamController::error_internal *)
ByteStream_error_internal(w, e) ==
  IF get_state(w) = "Readable"
  THEN ReadableStream_error(
         [w EXCEPT !.controller.pending_descriptors = <<>>,
                   !.controller.queue = <<>>, !.controller.queue_size = 0,
                   !.controller.pull = FALSE, !.controller.cancel = FALSE], e)
  ELSE w

(* ByteStreamController::close *)
ByteStream_close(w) ==
  IF can_close_or_enqueue(w)
  THEN LET w1 == IF w.controller.queue_size > 0
                 THEN [w EXCEPT !.controller.close_requested = TRUE] ELSE w
       IN IF w1.controller.pending_descriptors # <<>>
             /\ Head(w1.controller.pending_descriptors).filled > 0
          THEN LET w2 == ByteStream_error_internal(w1, E_PendingPullInto)
               IN IF w2.exc # NoExc THEN w2 ELSE Throw(w2, E_PendingPullInto)
          ELSE ReadableStream_close(
                 [w1 EXCEPT !.controller.pull = FALSE, !.controller.cancel = FALSE])
  ELSE Throw(w, E_CannotCloseByte)

(* The copy loop of ByteStreamController::fill_pull_into_descriptor: q is the
   byte queue of entries <<chunk, offset, length>>, qs the queue size, d the
   descriptor.  An empty queue makes copy = remaining and len = 0, as in the
   code.  d.data lists the bytes copied into the descriptor's buffer, each
   byte named by its chunk and its offset in the chunk; d.cap is the room the
   buffer has from the view's offset on.  ArrayBufferCopyData refuses a copy
   that does not fit into the destination buffer and the loop is left with an
   exception, the earlier copies done. *)
RECURSIVE FillLoop(_, _, _, _)
FillLoop(q, qs, d, remaining) ==
  IF remaining <= 0 THEN [queue |-> q, queue_size |-> qs, d |-> d, failed |-> FALSE]
  ELSE LET len == IF q # <<>> THEN Head(q)[3] ELSE 0
           copy == IF q # <<>> THEN Min(remaining, len) ELSE remaining
           q1 == IF q = <<>> THEN q
                 ELSE IF copy = len THEN Tail(q)
                 ELSE <<(<<Head(q)[1], Head(q)[2] + copy, Head(q)[3] - copy>>)>> \o Tail(q)
           got == IF q = <<>> THEN <<>>
                  ELSE [k \in 1..copy |-> <<Head(q)[1], Head(q)[2] + k - 1>>]
       IN IF q # <<>> /\ d.filled + copy > d.cap
          THEN [queue |-> q, queue_size |-> qs, d |-> d, failed |-> TRUE]
          ELSE FillLoop(q1, qs - copy,
                        [d EXCEPT !.filled = @ + copy, !.data = @ \o got],
                        remaining - copy)

(* ByteStreamController::fill_pull_into_descriptor: the controller with the
   bytes taken out, the descriptor with them added, the ready flag, and
   failed for the return with the exception of a refused copy. *)
fill_pull_into_descriptor(w, d) ==
  LET aligned == d.filled - (d.filled % d.element)
      max_copy == Min(w.controller.queue_size, d.length - d.filled)
      max_aligned == (d.filled + max_copy) - ((d.filled + max_copy) % d.element)
      ready == max_aligned > aligned
      remaining == IF ready THEN max_aligned - d.filled ELSE max_copy
      res == FillLoop(w.controller.queue, w.controller.queue_size, d, remaining)
      w1 == [w EXCEPT !.controller.queue = res.queue,
                      !.controller.queue_size = res.queue_size]
  IN [w |-> IF res.failed THEN Throw(w1, "exception of ArrayBufferCopyData") ELSE w1,
      d |-> res.d,
      ready |-> ready /\ ~res.failed,
      failed |-> res.failed]

(* PullIntoDescriptor::commit: settles the oldest request of the BYOB reader
   with the view over the filled bytes; unwrap() panics without a request. *)
commit(w, d, r, state) ==
  IF w.readers[r].requests = <<>> THEN Throw(w, PANIC)
  ELSE LET req == Head(w.readers[r].requests)
           done == (state = "Closed")
       IN [w EXCEPT !.readers[r].requests = Tail(@),
                    !.reads[req] = IF ~done THEN [Resolve(@, d.filled, FALSE) EXCEPT !.bytes = d.data]
                                   ELSE Reject(@, "read result with done: true")]

(* Bound on the iterations of the descriptor loop of enqueue *)
LoopFuel == 6
HANG == "hang: enqueue loop does not terminate"

RECURSIVE EnqueueDefaultLoop(_, _, _, _)
(* ByteStreamController::enqueue, Some(Reader::Default(reader)) arm: the
   while-let loop over the reader's requests.  The result carries the
   complete flag in ghost-free form as a record. *)
EnqueueDefaultLoop(w, r, len, po) ==
  IF w.readers[r].requests = <<>> THEN [w |-> w, complete |-> FALSE]
  ELSE LET req == Head(w.readers[r].requests)
           w1 == [w EXCEPT !.readers[r].requests = Tail(@)]
       IN IF w1.controller.queue_size = 0
          THEN [w |-> [w1 EXCEPT !.controller.pending_descriptors =
                                    IF @ = <<>> THEN @ ELSE Tail(@),
                                 !.reads[req] = Resolve(@, len, FALSE)],
                complete |-> TRUE]
          ELSE IF w1.controller.queue = <<>> THEN [w |-> Throw(w1, PANIC), complete |-> FALSE]
          ELSE LET length == Head(w1.controller.queue)[3]
                   w2 == [w1 EXCEPT !.controller.queue = Tail(@),
                                    !.controller.queue_size = @ - length]
                   w3 == IF w2.controller.queue_size = 0 /\ w2.controller.close_requested
                         THEN ByteStream_close(w2)
                         ELSE ByteStream_pull_if_needed(w2, po)
               IN IF w3.exc # NoExc THEN [w |-> w3, complete |-> FALSE]
                  ELSE EnqueueDefaultLoop([w3 EXCEPT !.reads[req] = Resolve(@, length, FALSE)],
                                          r, len, po)

RECURSIVE EnqueueByobLoop(_, _, _)
(* ByteStreamController::enqueue, Some(Reader::Byob(reader)) arm: the loop
   that fills and commits the pending descriptors. *)
EnqueueByobLoop(w, r, fuel) ==
  IF w.controller.pending_descriptors = <<>> \/ w.controller.queue_size = 0 THEN w
  ELSE IF fuel = 0 THEN Throw(w, HANG)
  ELSE LET res == fill_pull_into_descriptor(w, Head(w.controller.pending_descriptors))
       IN IF res.failed
          THEN [res.w EXCEPT !.controller.pending_descriptors = <<res.d>> \o Tail(@)]
          ELSE IF res.ready
          THEN LET w1 == [res.w EXCEPT !.controller.pending_descriptors = Tail(@)]
                   w2 == commit(w1, res.d, r, w1.stream.state)
               IN IF w2.exc # NoExc THEN w2 ELSE EnqueueByobLoop(w2, r, fuel - 1)
          ELSE EnqueueByobLoop(
                 [res.w EXCEPT !.controller.pending_descriptors = <<res.d>> \o Tail(@)],
                 r, fuel - 1)

(* ArrayBufferView::len: the length GetArrayBufferViewLengthAndData reports
   for the view v, which is 0 once the buffer of the view is detached *)
ArrayBufferView_len(v) == IF v.detached THEN 0 ELSE v.bytes

(* ByteStreamController::enqueue without the tests of the chunk's length *)
ByteStream_enqueue_unchecked(w, chunk, len, po) ==
  IF can_close_or_enqueue(w)
  THEN [w EXCEPT !.controller.queue = Append(@, <<chunk, 0, len>>),
                 !.controller.queue_size = @ + len]
  ELSE Throw(w, E_CannotEnqueue)

(* ByteStreamController::enqueue.  len is chunk.len(), 0 for an empty view
   and for a view over a detached buffer. *)
ByteStream_enqueue(w, chunk, len, po) ==
  IF len = 0 THEN Throw(w, E_ChunkEmpty)
  ELSE IF can_close_or_enqueue(w)
  THEN LET pd == w.controller.pending_descriptors
           shift == pd # <<>> /\ Head(pd).kind = "None" /\ Head(pd).filled > 0
           w1 == IF shift
                 THEN [w EXCEPT !.controller.queue = Append(@, <<0, 0, Head(pd).length>>),
                                !.controller.queue_size = @ + Head(pd).length,
                                !.controller.pending_descriptors = Tail(@)]
                 ELSE w
           r == get_reader(w1)
           push(x) == [x EXCEPT !.controller.queue = Append(@, <<chunk, 0, len>>),
                                !.controller.queue_size = @ + len]
           w2 == CASE w1.stream.reader_kind = "Default" ->
                        LET res == EnqueueDefaultLoop(w1, r, len, po)
                        IN IF res.w.exc # NoExc \/ res.complete THEN res.w ELSE push(res.w)
                   [] w1.stream.reader_kind = "Byob" -> EnqueueByobLoop(push(w1), r, LoopFuel)
                   [] OTHER -> push(w1)
       IN IF w2.exc # NoExc THEN w2 ELSE ByteStream_pull_if_needed(w2, po)
  ELSE Throw(w, E_CannotEnqueue)

(* ------------------------- Controller (enum) --------------------------- *)
(* Controller::pull: serves the read request req from the queue or queues it *)
Controller_pull(w, req, po) ==
  LET r == get_reader(w) IN
  IF w.controller.kind = "Default"
  THEN IF w.controller.queue # <<>>
       THEN LET chunk == Head(w.controller.queue)[1]
                w1 == [w EXCEPT !.controller.queue = Tail(@)]
                w2 == IF w1.controller.close_requested /\ w1.controller.queue = <<>>
                      THEN ReadableStream_close(
                             [w1 EXCEPT !.controller.pull = FALSE, !.controller.cancel = FALSE,
                                        !.controller.size = FALSE])
                      ELSE Default_pull_if_needed(w1, po)
            IN IF w2.exc # NoExc THEN w2
               ELSE [w2 EXCEPT !.reads[req] = Resolve(@, chunk, FALSE)]
       ELSE IF w.stream.reader_kind = "Default"
            THEN IF w.stream.state # "Readable" THEN Throw(w, E_CannotAddRead)
                 ELSE Default_pull_if_needed(
                        [w EXCEPT !.readers[r].requests = Append(@, req)], po)
            ELSE w
  ELSE IF w.stream.reader_kind # "Default" THEN Throw(w, E_NeedDefault)
       ELSE IF w.controller.queue_size > 0
       THEN IF w.controller.queue = <<>> THEN Throw(w, PANIC)
            ELSE LET length == Head(w.controller.queue)[3]
                     w1 == [w EXCEPT !.controller.queue = Tail(@),
                                     !.controller.queue_size = @ - length]
                     w2 == IF w1.controller.queue_size = 0 /\ w1.controller.close_requested
                           THEN ByteStream_close(w1)
                           ELSE ByteStream_pull_if_needed(w1, po)
                 IN IF w2.exc # NoExc THEN w2
                    ELSE [w2 EXCEPT !.reads[req] = Resolve(@, length, FALSE)]
       ELSE LET aacs == w.controller.auto_allocate_chunk_size
                w1 == IF aacs # 0
                      THEN [w EXCEPT !.controller.pending_descriptors =
                                       Append(@, [length |-> aacs, filled |-> 0,
                                                  element |-> 1, kind |-> "Default",
                                                  cap |-> aacs, data |-> <<>>])]
                      ELSE w
            IN ByteStream_pull_if_needed(
                 [w1 EXCEPT !.readers[r].requests = Append(@, req)], po)

(* The call of the underlying source's cancel algorithm *)
CallCancel(w, co) ==
  LET w1 == [w EXCEPT !.ghost.cancelCalls = @ + 1] IN
  IF co = "throw" THEN Throw(w1, "e_cancel") ELSE w1

(* Controller::cancel *)
Controller_cancel(w, co) ==
  LET had == w.controller.cancel
      w1 == IF w.controller.kind = "Default"
            THEN [w EXCEPT !.controller.queue = <<>>, !.controller.queue_size = 0,
                           !.controller.pull = FALSE, !.controller.size = FALSE,
                           !.controller.cancel = FALSE]
            ELSE [w EXCEPT !.controller.pending_descriptors = <<>>,
                           !.controller.queue = <<>>, !.controller.queue_size = 0,
                           !.controller.pull = FALSE, !.controller.cancel = FALSE]
  IN IF had THEN CallCancel(w1, co) ELSE w1

(* Controller::release *)
Controller_release(w) ==
  IF w.controller.kind = "Default" THEN w
  ELSE IF w.controller.pending_descriptors = <<>> THEN w
  ELSE [w EXCEPT !.controller.pending_descriptors = <<Head(@)>>]

(* error_internal that stores the error without looking at the state *)
Controller_error_internal_unchecked(w, e) ==
  [w EXCEPT !.stream.state = "Errored", !.stream.error = e]

(* Dispatch on the controller kind, as the callers of the JS methods do *)
Controller_pull_if_needed(w, po) ==
  IF w.controller.kind = "Default" THEN Default_pull_if_needed(w, po)
  ELSE ByteStream_pull_if_needed(w, po)

Controller_error_internal(w, e) ==
  IF w.controller.kind = "Default" THEN Default_error_internal(w, e)
  ELSE ByteStream_error_internal(w, e)

(* ------------------------------ readers -------------------------------- *)
NewReader(k) == [kind |-> k, stream |-> TRUE, requests |-> <<>>, closed |-> NewPromise]

(* A closed promise left pending whatever the state of the stream *)
ClosedFor_pending(w) == NewPromise

(* The closed promise of a reader created on a stream in the given state *)
ClosedFor(w) ==
  CASE w.stream.state = "Readable" -> NewPromise
    [] w.stream.state = "Closed" -> Resolve(NewPromise, Undefined, FALSE)
    [] OTHER -> Reject(NewPromise, w.stream.error)

(* DefaultReader::new without the locked check *)
DefaultReader_new_nolock(w) ==
  [w EXCEPT !.readers = Append(@, [NewReader("Default") EXCEPT !.closed = ClosedFor(w)])]

(* DefaultReader::new: the reader is appended to readers *)
DefaultReader_new(w) ==
  IF get_locked(w) THEN Throw(w, E_DefaultLocked)
  ELSE [w EXCEPT !.readers = Append(@, [NewReader("Default") EXCEPT !.closed = ClosedFor(w)])]

(* ByobReader::new *)
ByobReader_new(w) ==
  IF get_locked(w) THEN Throw(w, E_ByobLocked)
  ELSE IF w.controller.kind = "Default" THEN Throw(w, E_ByobDefault)
  ELSE [w EXCEPT !.readers = Append(@, [NewReader("Byob") EXCEPT !.closed = ClosedFor(w)])]

(* The caller of new() stores the reader in the stream *)
Attach(w, k) ==
  [w EXCEPT !.stream.reader_kind = k, !.stream.reader_object = Len(w.readers)]

(* DefaultReader::constructor *)
DefaultReader_constructor(w) ==
  LET w1 == DefaultReader_new(w) IN
  IF w1.exc # NoExc THEN w1 ELSE Attach(w1, "Default")

(* ByobReader::constructor *)
ByobReader_constructor(w) ==
  LET w1 == ByobReader_new(w) IN
  IF w1.exc # NoExc THEN w1 ELSE Attach(w1, "Byob")

(* ReadableStream::getReader; mode is "absent", "byob" or another string *)
getReader(w, mode) ==
  IF mode # "absent"
  THEN IF mode = "byob"
       THEN LET w1 == ByobReader_new(w) IN
            IF w1.exc # NoExc THEN w1 ELSE Attach(w1, "Byob")
       ELSE Throw(w, E_ModeByob)
  ELSE IF get_locked(w) THEN Throw(w, E_NewLocked)
       ELSE LET w1 == DefaultReader_new(w) IN
            IF w1.exc # NoExc THEN w1 ELSE Attach(w1, "Default")

(* ReadableStream::cancel without the test of the lock *)
ReadableStream_cancel_ignores_lock(w, co) ==
  LET w1 == [w EXCEPT !.stream.disturbed = TRUE] IN
  IF w1.stream.state = "Readable"
  THEN LET w2 == ReadableStream_close(w1) IN
       IF w2.exc # NoExc THEN w2 ELSE Controller_cancel(w2, co)
  ELSE w1

(* ReadableStream::cancel *)
ReadableStream_cancel(w, co) ==
  IF get_locked(w) THEN Throw(w, E_StreamLocked)
  ELSE LET w1 == [w EXCEPT !.stream.disturbed = TRUE] IN
       IF w1.stream.state = "Readable"
       THEN LET w2 == ReadableStream_close(w1) IN
            IF w2.exc # NoExc THEN w2 ELSE Controller_cancel(w2, co)
       ELSE w1

(* DefaultReader::cancel / ByobReader::cancel *)
Reader_cancel(w, r, co) ==
  IF w.readers[r].stream THEN ReadableStream_cancel(w, co) ELSE w

(* A read() call creates the promise it returns: it is reads[Len(reads)] *)
NewRead(w, r) ==
  [w EXCEPT !.reads = Append(@, [reader |-> r, st |-> "pending", value |-> Undefined,
                                 done |-> FALSE, err |-> NoError, returned |-> TRUE,
                                 bytes |-> <<>>])]

(* A read() that raises an exception does not return its promise *)
NotReturned(w, req) ==
  IF w.exc # NoExc THEN [w EXCEPT !.reads[req].returned = FALSE] ELSE w

DefaultReader_read_disturbs_readable_only(w, r, po) ==
  LET w0 == NewRead(w, r)
      req == Len(w0.reads)
  IN IF w0.readers[r].stream
     THEN CASE w0.stream.state = "Readable" ->
                 NotReturned(Controller_pull([w0 EXCEPT !.stream.disturbed = TRUE], req, po), req)
            [] w0.stream.state = "Closed" ->
                 [w0 EXCEPT !.reads[req] = Resolve(@, Undefined, TRUE)]
            [] OTHER -> [w0 EXCEPT !.reads[req] = Reject(@, w0.stream.error)]
     ELSE [w0 EXCEPT !.reads[req] = Reject(@, E_AlreadyReleased)]

(* DefaultReader::read *)
DefaultReader_read(w, r, po) ==
  LET w0 == NewRead(w, r)
      req == Len(w0.reads)
  IN IF w0.readers[r].stream
     THEN LET w1 == [w0 EXCEPT !.stream.disturbed = TRUE] IN
          CASE w1.stream.state = "Readable" -> NotReturned(Controller_pull(w1, req, po), req)
            [] w1.stream.state = "Closed" ->
                 [w1 EXCEPT !.reads[req] = Resolve(@, Undefined, TRUE)]
            [] OTHER -> [w1 EXCEPT !.reads[req] = Reject(@, w1.stream.error)]
     ELSE [w0 EXCEPT !.reads[req] = Reject(@, E_AlreadyReleased)]

(* ByobReader::read.  len is view.len(), the length of the view in bytes
   (0 also for a detached buffer), and element the element size of the view's
   type.  The view is one over a buffer of its own, as new Uint8Array(n)
   makes it: the buffer has len bytes. *)
ByobReader_read(w, r, len, element, po) ==
  IF ~w.readers[r].stream
  THEN LET w0 == NewRead(w, r) IN
       [w0 EXCEPT !.reads[Len(w0.reads)] = Reject(@, E_AlreadyReleased)]
  ELSE IF len = 0 THEN Throw(w, E_BufferEmpty)
  ELSE LET w0 == [NewRead(w, r) EXCEPT !.stream.disturbed = TRUE]
           req == Len(w0.reads)
           d == [length |-> len * element, filled |-> 0, element |-> element, kind |-> "Byob",
                 cap |-> len, data |-> <<>>]
           queued(x) ==
             LET x1 == [x EXCEPT !.controller.pending_descriptors = Append(@, d)] IN
             IF x1.stream.state = "Readable"
             THEN [x1 EXCEPT !.readers[r].requests = Append(@, req)] ELSE x1
       IN IF w0.stream.state = "Errored"
          THEN [w0 EXCEPT !.reads[req] = Reject(@, w0.stream.error)]
          ELSE IF w0.controller.kind # "ByteStream" THEN w0
          ELSE IF w0.controller.pending_descriptors # <<>> THEN queued(w0)
          ELSE IF w0.stream.state = "Closed"
               THEN [w0 EXCEPT !.reads[req] = Resolve(@, 0, TRUE)]
          ELSE LET res == fill_pull_into_descriptor(w0, d) IN
               IF w0.controller.queue_size > 0 /\ res.failed
               THEN NotReturned(res.w, req)
               ELSE IF w0.controller.queue_size > 0 /\ res.ready
               THEN LET w1 == IF res.w.controller.queue_size = 0
                                 /\ res.w.controller.close_requested
                              THEN ByteStream_close(res.w)
                              ELSE ByteStream_pull_if_needed(res.w, po)
                    IN IF w1.exc # NoExc THEN NotReturned(w1, req)
                       ELSE [w1 EXCEPT !.reads[req] =
                                         [Resolve(@, res.d.filled, FALSE) EXCEPT !.bytes = res.d.data]]
               ELSE IF w0.controller.queue_size > 0 /\ res.w.controller.close_requested
               THEN [res.w EXCEPT !.reads[req] = Reject(@, E_ClosedByRequest)]
               ELSE LET base == IF w0.controller.queue_size > 0 THEN res.w ELSE w0
                        dd == IF w0.controller.queue_size > 0 THEN res.d ELSE d
                        x1 == [base EXCEPT !.controller.pending_descriptors = Append(@, dd)]
                        x2 == IF x1.stream.state = "Readable"
                              THEN [x1 EXCEPT !.readers[r].requests = Append(@, req)] ELSE x1
                    IN NotReturned(ByteStream_pull_if_needed(x2, po), req)

(* DefaultReader::releaseLock / ByobReader::releaseLock *)
releaseLock(w, r) ==
  IF w.readers[r].stream
  THEN LET closed == IF w.stream.state = "Readable" THEN w.readers[r].closed ELSE NewPromise
           w1 == [w EXCEPT !.readers[r].closed = Reject(closed, E_ReleasedReader),
                           !.stream.reader_kind = "None", !.stream.reader_object = 0]
           w2 == Controller_release(w1)
       IN [w2 EXCEPT !.reads = RejectAll(w2.reads, w2.readers[r].requests, E_HasBeenReleased),
                     !.readers[r].requests = <<>>,
                     !.readers[r].stream = FALSE]
  ELSE Throw(w, E_AlreadyReleased)

(* ------------------------- promise reactions --------------------------- *)
(* Controller::start, fulfilment reaction of the start promise *)
start_fulfilled(w, po) ==
  LET w1 == Controller_pull_if_needed([w EXCEPT !.controller.started = TRUE], po)
  IN [w1 EXCEPT !.source.start = "done"]

(* Controller::start, rejection reaction of the start promise *)
start_rejected(w, e) ==
  [Controller_error_internal(w, e) EXCEPT !.source.start = "done"]

(* The fulfilment reaction with pull_again left set for the follow-up *)
pull_fulfilled_keeps_again(w, id, po) ==
  LET w1 == [w EXCEPT !.source.pulls = @ \ {id}, !.controller.pulling = FALSE]
  IN IF w1.controller.pull_again
     THEN LET w2 == Controller_pull_if_needed(w1, po)
          IN [w2 EXCEPT !.ghost.followUps = @ + (w2.ghost.pullCalls - w1.ghost.pullCalls)]
     ELSE w1

(* pull_if_needed, fulfilment reaction of the promise returned by pull *)
pull_fulfilled(w, id, po) ==
  LET w1 == [w EXCEPT !.source.pulls = @ \ {id}, !.controller.pulling = FALSE]
  IN IF w1.controller.pull_again
     THEN LET w2 == Controller_pull_if_needed([w1 EXCEPT !.controller.pull_again = FALSE], po)
          IN [w2 EXCEPT !.ghost.followUps = @ + (w2.ghost.pullCalls - w1.ghost.pullCalls)]
     ELSE w1

(* pull_if_needed, rejection reaction of the promise returned by pull *)
pull_rejected(w, id, e) ==
  Controller_error_internal([w EXCEPT !.source.pulls = @ \ {id}], e)

(* --------------------------- TransformStream --------------------------- *)
(* A world t holds the TransformStream with its controller's transformer,
   the promises its callbacks create, and the two halves, which belong to the
   engine: the readable half is readable, closed or errored and has the
   queue of its default controller, the writable half is writable, erroring,
   errored or closed, and closing once close() was called on it.  write is
   the position of the sink's write in flight, delivered what the consumer
   of the readable half has read; failure and flushFailure record the states
   of the halves at the moment a failing write or flush was handled. *)
NoPromise == 0

Pending == [st |-> "pending", err |-> NoError]
Fulfilled == [st |-> "fulfilled", err |-> NoError]
Rejected(e) == [st |-> "rejected", err |-> e]

(* TransformStream::constructor: tr says which algorithms the transformer
   object defines *)
TransformStream_new(tr) ==
  [transformer |-> tr, finish_promise |-> NoPromise, error |-> NoError,
   promises |-> <<>>,
   given |-> tr,
   readable |-> [state |-> "readable", error |-> NoError, queue |-> <<>>,
                 close_requested |-> FALSE],
   writable |-> [state |-> "writable", error |-> NoError, closing |-> FALSE],
   write |-> "none", writeErr |-> NoError, writes |-> 0,
   failure |-> [kind |-> "none", readable |-> "readable", writable |-> "writable"],
   flushCalls |-> 0, flushed |-> 0, delivered |-> <<>>,
   flushFailure |-> [readable |-> "none", err |-> NoError],
   reaction |-> "none", reason |-> NoError,
   userCancel |-> "none", closeFuture |-> "none",
   abortRet |-> NoPromise, cancelRet |-> NoPromise, closeRet |-> NoPromise,
   cancelCalls |-> 0, creator |-> "none"]

(* Promise::new, Promise::resolved, Promise::rejected: the promise is the
   last one of promises *)
AddPromise(t, p) == [t EXCEPT !.promises = Append(@, p)]

SettlePromise(t, id, p) ==
  IF t.promises[id].st = "pending" THEN [t EXCEPT !.promises[id] = p] ELSE t

(* TransformStreamDefaultController::clear_algorithms *)
clear_algorithms(t) ==
  [t EXCEPT !.transformer.transform = FALSE, !.transformer.flush = FALSE]

(* The engine's ReadableStreamError: only a readable stream is errored, and
   its queue is reset *)
ReadableStreamError(t, e) ==
  IF t.readable.state = "readable"
  THEN [t EXCEPT !.readable.state = "errored", !.readable.error = e,
                 !.readable.queue = <<>>]
  ELSE t

(* The engine's CheckReadableStreamControllerCanCloseOrEnqueue *)
CheckReadableStreamControllerCanCloseOrEnqueue(t) ==
  t.readable.state = "readable" /\ ~t.readable.close_requested

(* The engine's ReadableStreamEnqueue on the readable half, whose strategy
   has no size algorithm *)
ReadableStreamEnqueue(t, chunk) ==
  [t EXCEPT !.readable.queue = Append(@, chunk)]

(* The engine's ReadableStreamClose: the stream closes once its queue is
   empty *)
ReadableStreamClose(t) ==
  IF t.readable.queue = <<>>
  THEN [t EXCEPT !.readable.state = "closed", !.readable.close_requested = TRUE]
  ELSE [t EXCEPT !.readable.close_requested = TRUE]

(* The engine's read of the readable half by its consumer *)
ReadableStreamRead(t) ==
  IF t.readable.queue # <<>>
  THEN LET t1 == [t EXCEPT !.delivered = Append(@, Head(t.readable.queue)),
                           !.readable.queue = Tail(@)]
       IN IF t1.readable.close_requested /\ t1.readable.queue = <<>>
          THEN [t1 EXCEPT !.readable.state = "closed"] ELSE t1
  ELSE IF t.readable.state = "closed" THEN [t EXCEPT !.delivered = Append(@, "done")]
  ELSE t

(* TransformStream::error_writable_and_unblock_write *)
error_writable_and_unblock_write(t, e) ==
  LET t1 == clear_algorithms([t EXCEPT !.error = e])
  IN IF t1.writable.state = "writable"
     THEN [t1 EXCEPT !.writable.state = "errored", !.writable.error = e]
     ELSE t1

(* TransformStream::error that errors the readable half only *)
TransformStream_error_readable_only(t, e) == ReadableStreamError(t, e)

(* TransformStream::error *)
TransformStream_error(t, e) ==
  error_writable_and_unblock_write(ReadableStreamError(t, e), e)

(* finish_promise_inner of get_or_create_finish_promise *)
finish_promise_inner(t) ==
  IF t.error # NoError THEN Rejected(t.error) ELSE Fulfilled

(* get_or_create_finish_promise that makes a new promise on every call *)
get_or_create_finish_promise_fresh(t, co) ==
  LET made ==
        IF ~t.transformer.cancel THEN AddPromise(t, finish_promise_inner(t))
        ELSE LET t1 == [t EXCEPT !.cancelCalls = @ + 1] IN
             CASE co = "throw" -> AddPromise(t1, Rejected("e_cancel"))
               [] co = "promise" -> AddPromise([t1 EXCEPT !.userCancel = "pending"], Pending)
               [] OTHER -> AddPromise(t1, finish_promise_inner(t1))
  IN [t |-> [made EXCEPT !.finish_promise = Len(made.promises)],
      promise |-> Len(made.promises), just_created |-> TRUE]

(* TransformStream::get_or_create_finish_promise.  co is what the
   transformer's cancel algorithm does: it throws, returns a promise, or
   returns another value. *)
get_or_create_finish_promise(t, co) ==
  IF t.finish_promise # NoPromise
  THEN [t |-> t, promise |-> t.finish_promise, just_created |-> FALSE]
  ELSE LET made ==
             IF ~t.transformer.cancel THEN AddPromise(t, finish_promise_inner(t))
             ELSE LET t1 == [t EXCEPT !.cancelCalls = @ + 1] IN
                  CASE co = "throw" -> AddPromise(t1, Rejected("e_cancel"))
                    [] co = "promise" ->
                         AddPromise([t1 EXCEPT !.userCancel = "pending"], Pending)
                    [] OTHER -> AddPromise(t1, finish_promise_inner(t1))
       IN [t |-> [made EXCEPT !.finish_promise = Len(made.promises)],
           promise |-> Len(made.promises), just_created |-> TRUE]

(* Reactions to the promise returned by the transformer's cancel algorithm *)
cancel_fulfilled(t) ==
  [SettlePromise(t, t.finish_promise, finish_promise_inner(t)) EXCEPT !.userCancel = "done"]

cancel_rejected(t, e) ==
  [SettlePromise(t, t.finish_promise,
                 IF t.error # NoError THEN Rejected(t.error) ELSE Rejected(e))
     EXCEPT !.userCancel = "done"]

(* Source::cancel *)
Source_cancel(t, reason, co) ==
  LET r == get_or_create_finish_promise(t, co)
      t1 == IF r.just_created
            THEN [r.t EXCEPT !.reaction = "cancel", !.reason = reason, !.creator = "cancel"]
            ELSE r.t
  IN [t1 EXCEPT !.cancelRet = r.promise]

(* Sink::abort *)
Sink_abort(t, reason, co) ==
  LET r == get_or_create_finish_promise(t, co)
      t1 == IF r.just_created
            THEN [r.t EXCEPT !.reaction = "abort", !.reason = reason, !.creator = "abort"]
            ELSE r.t
  IN [t1 EXCEPT !.abortRet = r.promise]

(* The reactions Source::cancel and Sink::abort add to a finish promise they
   created, run when it has settled *)
finish_reaction(t) ==
  LET p == t.promises[t.finish_promise]
      e == IF p.st = "fulfilled" THEN t.reason ELSE p.err
      t1 == [t EXCEPT !.reaction = "done"]
  IN IF t.reaction = "abort" THEN TransformStream_error(t1, e)
     ELSE error_writable_and_unblock_write(t1, e)

(* Sink::close: the promise of the queued future becomes the finish promise *)
Sink_close(t) ==
  IF t.finish_promise # NoPromise THEN [t EXCEPT !.closeRet = t.finish_promise]
  ELSE LET t1 == AddPromise(t, Pending)
       IN [t1 EXCEPT !.finish_promise = Len(t1.promises), !.closeRet = Len(t1.promises),
                     !.closeFuture = "queued", !.creator = "close"]

(* The end of the future of Sink::close, after the flush algorithm *)
close_finish(t) ==
  LET t1 == clear_algorithms([t EXCEPT !.closeFuture = "done"])
  IN IF t1.readable.state = "errored"
     THEN SettlePromise(t1, t1.closeRet, Rejected(t1.readable.error))
     ELSE SettlePromise(
            IF CheckReadableStreamControllerCanCloseOrEnqueue(t1)
            THEN ReadableStreamClose(t1) ELSE t1,
            t1.closeRet, Fulfilled)

(* TransformStreamDefaultController::enqueue: the outcome is the stream and
   the exception raised, NoExc for none *)
E_ReadableClosed == "TypeError: Readable stream is already closed"

TransformStreamDefaultController_enqueue(t, chunk) ==
  IF ~CheckReadableStreamControllerCanCloseOrEnqueue(t)
  THEN [t |-> t, exc |-> E_ReadableClosed]
  ELSE [t |-> ReadableStreamEnqueue(t, chunk), exc |-> NoExc]

(* What a transform or flush algorithm does with the controller it is given:
   n calls of controller.enqueue, the first exception ending the algorithm *)
RECURSIVE UserEnqueues(_, _, _)
UserEnqueues(t, n, chunk) ==
  IF n = 0 THEN [t |-> t, exc |-> NoExc]
  ELSE LET r == TransformStreamDefaultController_enqueue(t, chunk)
       IN IF r.exc # NoExc THEN r ELSE UserEnqueues(r.t, n - 1, chunk)

(* The halves as they are when a failure of a write is handled *)
Failure(t, kind) ==
  [kind |-> kind, readable |-> t.readable.state, writable |-> t.writable.state]

(* Sink::write.  to is what the transform algorithm does after n calls of
   controller.enqueue: it throws, returns a promise, or returns another
   value.  write becomes "threw" when the sink raises the exception itself,
   "rejected" when it returns a rejected promise with the reaction added,
   "pending" when the promise of the transform algorithm is not settled. *)
Sink_write(t, to, n) ==
  LET t0 == [t EXCEPT !.writes = @ + 1] IN
  IF t0.writable.state # "writable"
  THEN [t0 EXCEPT !.write = "threw", !.writeErr = "e_not_writable",
                  !.failure = Failure(t0, "state")]
  ELSE IF ~t0.transformer.transform
  THEN LET r == TransformStreamDefaultController_enqueue(t0, "w")
       IN IF r.exc # NoExc
          THEN [r.t EXCEPT !.write = "threw", !.writeErr = r.exc,
                           !.failure = Failure(t0, "enqueue")]
          ELSE r.t
  ELSE LET r == UserEnqueues(t0, n, "w")
       IN IF r.exc # NoExc
          THEN [r.t EXCEPT !.write = "rejected", !.writeErr = r.exc]
          ELSE CASE to = "throw" -> [r.t EXCEPT !.write = "rejected", !.writeErr = "e_transform"]
                 [] to = "promise" -> [r.t EXCEPT !.write = "pending"]
                 [] OTHER -> r.t

(* The promise the transform algorithm returned rejects *)
transform_rejected(t, e) == [t EXCEPT !.write = "rejected", !.writeErr = e]

(* The rejection reaction Sink::write adds to the promise it returns *)
write_failed(t) ==
  [TransformStream_error(t, t.writeErr)
     EXCEPT !.write = "reacted", !.failure = Failure(t, "transform")]

(* The engine's reaction to a failed write of the sink: the writable half is
   errored with the exception unless it left the writable state before *)
WritableStreamDealWithRejection(t) ==
  LET t1 == [t EXCEPT !.write = "failed"] IN
  IF t1.writable.state = "writable"
  THEN [t1 EXCEPT !.writable.state = "errored", !.writable.error = t.writeErr]
  ELSE t1

(* The future of Sink::close that closes without calling flush *)
close_run_skips_flush(t, fo, n) == close_finish(t)

(* The future of Sink::close up to the flush algorithm.  fo is what flush
   does after n calls of controller.enqueue: it throws, returns a promise, or
   returns another value. *)
close_run(t, fo, n) ==
  IF ~t.transformer.flush THEN close_finish(t)
  ELSE LET r == UserEnqueues([t EXCEPT !.flushCalls = @ + 1], n, "f")
           t1 == [r.t EXCEPT !.flushed = @ + Len(r.t.readable.queue) - Len(t.readable.queue)]
           e == IF r.exc # NoExc THEN r.exc ELSE "e_flush"
       IN IF r.exc # NoExc \/ fo = "throw"
          THEN SettlePromise(
                 [ReadableStreamError(t1, e) EXCEPT !.closeFuture = "done",
                    !.flushFailure = [readable |-> t1.readable.state, err |-> e]],
                 t1.closeRet, Rejected(e))
          ELSE IF fo = "promise" THEN [t1 EXCEPT !.closeFuture = "awaitFlush"]
          ELSE close_finish(t1)

(* The future of Sink::close after the promise returned by flush rejected *)
close_flush_rejected(t, e) ==
  SettlePromise(
    [ReadableStreamError(TransformStream_error(t, e), e) EXCEPT !.closeFuture = "done",
       !.flushFailure = [readable |-> t.readable.state, err |-> e]],
    t.closeRet, Rejected(e))

(* ------------------------- Context and rooting ------------------------- *)
(* A world x holds the Contexts that wrap the one engine context, the Locals
   minted so far (a slot is named by the index of its Local, every root call
   allocating a new slot), and the engine's root stacks, one list per kind,
   the last element on top. *)
GCTypes == {"Value", "Object", "String"}

NoSlots == [k \in GCTypes |-> <<>>]

(* Context::from_runtime, Context::new_unchecked: empty arena and log *)
Context_new == [alive |-> TRUE, rooted |-> NoSlots, order |-> <<>>]

(* unlinks lists the slots that the last teardown of a Context unlinked from
   the root stack, in the order of the unlinking; exhausted records an unwrap() of impl_drop on an arena with no
   slot left. *)
Rooting_new ==
  [contexts |-> <<Context_new>>, locals |-> <<>>, stack |-> NoSlots, panicked |-> FALSE,
   unlinks |-> <<>>, exhausted |-> FALSE, tasks |-> <<>>, loop |-> 0]

(* Context::duplicate *)
Context_duplicate(x) == [x EXCEPT !.contexts = Append(@, Context_new)]

(* Rooted::add_to_root_stack, called for the new slot when its Local is made *)
add_to_root_stack(x, k, slot) == [x EXCEPT !.stack[k] = Append(@, slot)]

(* Rooted::remove_from_root_stack: the engine asserts that the slot is the
   top of its list *)
remove_from_root_stack(x, k, slot) ==
  IF x.stack[k] # <<>> /\ x.stack[k][Len(x.stack[k])] = slot
  THEN [x EXCEPT !.stack[k] = SubSeq(@, 1, Len(@) - 1), !.unlinks = Append(@, slot)]
  ELSE [x EXCEPT !.panicked = TRUE]

(* Context::root: a new slot in the arena of the kind, the kind appended to
   the order log, and the Local made for the slot, which links it *)
Context_root(x, c, k) ==
  LET slot == Len(x.locals) + 1
      x1 == [x EXCEPT !.contexts[c].rooted[k] = Append(@, slot),
                      !.contexts[c].order = Append(@, k),
                      !.locals = Append(@, [slot |-> slot, kind |-> k, context |-> c,
                                            live |-> TRUE])]
  IN add_to_root_stack(x1, k, slot)

(* The end of the scope of a Local that unlinks the slot of the Local *)
Local_drop_unlinks(x, i) ==
  remove_from_root_stack([x EXCEPT !.locals[i].live = FALSE],
                         x.locals[i].kind, x.locals[i].slot)

(* The end of the scope of a Local: the slot stays in the arena and on the
   root stack, it is unrooted when its Context is dropped *)
Local_drop(x, i) == [x EXCEPT !.locals[i].live = FALSE]

(* The loop of impl_drop: the order log is walked from its end, every entry
   taking the next slot from the end of the arena of its kind; n entries and,
   per kind, taken[k] slots have been handled.  unwrap() on an exhausted arena
   and the engine's assertion stop the teardown. *)
(* The loop of impl_drop walking the order log from its start *)
RECURSIVE DropLoop_forward(_, _, _, _)
DropLoop_forward(x, c, n, taken) ==
  IF n = Len(x.contexts[c].order) \/ x.panicked THEN x
  ELSE LET k == x.contexts[c].order[n + 1]
           arena == x.contexts[c].rooted[k]
       IN IF taken[k] >= Len(arena) THEN [x EXCEPT !.panicked = TRUE, !.exhausted = TRUE]
          ELSE DropLoop_forward(remove_from_root_stack(x, k, arena[Len(arena) - taken[k]]),
                                c, n + 1, [taken EXCEPT ![k] = @ + 1])

RECURSIVE DropLoop(_, _, _, _)
DropLoop(x, c, n, taken) ==
  IF n = Len(x.contexts[c].order) \/ x.panicked THEN x
  ELSE LET k == x.contexts[c].order[Len(x.contexts[c].order) - n]
           arena == x.contexts[c].rooted[k]
       IN IF taken[k] >= Len(arena) THEN [x EXCEPT !.panicked = TRUE, !.exhausted = TRUE]
          ELSE DropLoop(remove_from_root_stack(x, k, arena[Len(arena) - taken[k]]),
                        c, n + 1, [taken EXCEPT ![k] = @ + 1])

(* Drop for Context *)
Context_drop(x, c) ==
  LET done == DropLoop([x EXCEPT !.unlinks = <<>>], c, 0, [k \in GCTypes |-> 0])
  IN IF done.panicked THEN done
     ELSE [done EXCEPT !.contexts[c].order = <<>>, !.contexts[c].rooted = NoSlots,
                       !.contexts[c].alive = FALSE]

(* ------------------------- futures and tasks --------------------------- *)
(* x.tasks holds the futures spawned by future_to_promise.  A task is queued
   until its first poll, running while it is being polled, suspended when its
   poll returned Pending, and done.  context is the Context the task owns (0
   for none), had the Contexts it has owned, fut the future it awaits, out the
   output of that future once it has completed, got the output the last await
   returned.  x.loop is the Context of the event loop's
   poll in progress (0 for none); contexts[1] belongs to the runtime. *)
FutureOutputs == {"o1", "o2"}

NoOutput == "none"

Task_new(c) ==
  [state |-> "queued", context |-> c, had |-> {c}, fut |-> "none", out |-> NoOutput,
   got |-> NoOutput]

(* future_to_promise: Promise::new and promise.root root two objects through
   the caller's Context c, cx2 is made at once and moved into the task, which
   is spawned and enqueued. *)
future_to_promise(x, c) ==
  LET x1 == Context_root(Context_root(x, c, "Object"), c, "Object")
      x2 == [x1 EXCEPT !.contexts = Append(@, Context_new)]
  IN [x2 EXCEPT !.tasks = Append(@, Task_new(Len(x2.contexts)))]

(* The first poll of a task calls callback(cx2) *)
Task_start(x, t) == [x EXCEPT !.tasks[t].state = "running"]

(* The callback returns: its Context goes out of scope *)
Task_finish(x, t) ==
  LET x1 == Context_drop(x, x.tasks[t].context)
  IN IF x1.panicked THEN x1
     ELSE [x1 EXCEPT !.tasks[t].state = "done", !.tasks[t].context = 0]

(* Context::new_unchecked handed to the task t *)
Task_fresh_context(x, t) ==
  LET x1 == [x EXCEPT !.contexts = Append(@, Context_new)]
  IN [x1 EXCEPT !.tasks[t].context = Len(x1.contexts),
                !.tasks[t].had = @ \cup {Len(x1.contexts)}]

(* Context::await_native that keeps self while the future is pending *)
await_native_enter_keeps(x, t) ==
  [x EXCEPT !.tasks[t].state = "suspended", !.tasks[t].fut = "pending"]

(* Context::await_native up to the first Pending of the future: drop(self),
   then future.await *)
await_native_enter(x, t) ==
  LET x1 == Context_drop(x, x.tasks[t].context)
  IN IF x1.panicked THEN x1
     ELSE [x1 EXCEPT !.tasks[t].context = 0, !.tasks[t].state = "suspended",
                     !.tasks[t].fut = "pending"]

(* Context::await_native after the future has completed with output o: the
   fresh Context is made and returned with o.  A Context the task still
   holds goes out of scope here. *)
await_native_return(x, t, o) ==
  LET x0 == IF x.tasks[t].context # 0 THEN Context_drop(x, x.tasks[t].context) ELSE x
      x1 == Task_fresh_context(x0, t)
  IN IF x0.panicked THEN x0
     ELSE [x1 EXCEPT !.tasks[t].state = "running", !.tasks[t].fut = "none",
                     !.tasks[t].out = NoOutput, !.tasks[t].got = o]

(* PromiseFuture::new that keeps cx *)
PromiseFuture_new_keeps(x, t) ==
  LET c == x.tasks[t].context
      x1 == Context_root(Context_root(x, c, "Object"), c, "Object")
  IN [x1 EXCEPT !.tasks[t].state = "suspended", !.tasks[t].fut = "promise"]

(* PromiseFuture::new: add_reactions roots the two reaction objects through
   cx, then drop(cx); the task suspends on the receiver *)
PromiseFuture_new(x, t) ==
  LET c == x.tasks[t].context
      x1 == Context_root(Context_root(x, c, "Object"), c, "Object")
      x2 == Context_drop(x1, c)
  IN IF x2.panicked THEN x2
     ELSE [x2 EXCEPT !.tasks[t].context = 0, !.tasks[t].state = "suspended",
                     !.tasks[t].fut = "promise"]

(* PromiseFuture::poll with the value received: Poll::Ready of a fresh Context
   and the value *)
PromiseFuture_poll(x, t, o) == await_native_return(x, t, o)

(* RunToEnd::poll: the Context of one poll of the event loop, made at its
   start and dropped at its end *)
Loop_enter(x) ==
  LET x1 == [x EXCEPT !.contexts = Append(@, Context_new)]
  IN [x1 EXCEPT !.loop = Len(x1.contexts)]

Loop_exit(x) ==
  LET x1 == Context_drop(x, x.loop)
  IN IF x1.panicked THEN x1 ELSE [x1 EXCEPT !.loop = 0]

(* ---------------------- state machine: streams ------------------------- *)
PullOutcomes == {"promise", "value", "throw"}
CancelOutcomes == {"value", "throw"}
SizeOutcomes == {1, 2, SizeThrows, SizeOutOfRange}
ChunkLens == {0, 1, 2}
ViewLens == {0, 1, 2}
ElementSizes == {1, 2}

(* The underlying sources and strategies the streams are constructed from:
   which algorithms the source and the strategy define, the highWaterMark
   (default 1, byte streams 0) and autoAllocateChunkSize (0 when absent). *)
(* An underlying source without algorithms, and no transformer object *)
BareSource ==
  [kind |-> "Default", start |-> FALSE, pull |-> FALSE, cancel |-> FALSE, size |-> FALSE,
   hwm |-> 1, aacs |-> 0]

NoTransformer == [transform |-> FALSE, flush |-> FALSE, cancel |-> FALSE]

SourceConfigs ==
  { [kind |-> "Default", start |-> TRUE, pull |-> TRUE, cancel |-> TRUE, size |-> TRUE,
     hwm |-> 1, aacs |-> 0],
    [kind |-> "Default", start |-> TRUE, pull |-> TRUE, cancel |-> TRUE, size |-> FALSE,
     hwm |-> 0, aacs |-> 0],
    BareSource,
    [kind |-> "ByteStream", start |-> TRUE, pull |-> TRUE, cancel |-> TRUE, size |-> FALSE,
     hwm |-> 0, aacs |-> 0],
    [kind |-> "ByteStream", start |-> TRUE, pull |-> TRUE, cancel |-> FALSE, size |-> FALSE,
     hwm |-> 1, aacs |-> 2] }

Commit(w) ==
  /\ stream' = w.stream
  /\ controller' = w.controller
  /\ readers' = w.readers
  /\ reads' = w.reads
  /\ source' = w.source
  /\ ghost' = [w.ghost EXCEPT !.panicked = (w.exc \in {PANIC, HANG})]
  /\ UNCHANGED <<ts, cx>>

Live == ~ghost.panicked

(* Chunks are numbered by the enqueue calls that changed anything. *)
Counted(w) ==
  IF [w EXCEPT !.exc = NoExc] # World THEN [w EXCEPT !.ghost.enq = @ + 1] ELSE w

(* Operations that create a reader, issue a read, enqueue a chunk or may call
   the pull algorithm are offered while the run is below the bound. *)
MayGrow == Len(readers) + Len(reads) + ghost.enq + ghost.pullCalls < MaxCalls

(* A pull promise settled when the stream had already left Readable *)
Settled(w) == [w EXCEPT !.ghost.lateSettled = @ \/ stream.state # "Readable"]

(* The state after ReadableStream::constructor: the controller from
   DefaultController::initialise or ByteStreamController::initialise, the
   start algorithm called and its promise not yet settled. *)
ReadableStream_new ==
  [state |-> "Readable", disturbed |-> FALSE, error |-> NoError,
   reader_kind |-> "None", reader_object |-> 0]

Controller_new(c) ==
  [kind |-> c.kind, start |-> c.start, pull |-> c.pull,
   cancel |-> c.cancel, size |-> c.size,
   high_water_mark |-> c.hwm, auto_allocate_chunk_size |-> c.aacs,
   started |-> FALSE, pulling |-> FALSE, pull_again |-> FALSE,
   close_requested |-> FALSE, queue |-> <<>>, queue_size |-> 0,
   pending_descriptors |-> <<>>]

Source_new(c) == [start |-> IF c.start THEN "pending" ELSE "none", pulls |-> {}]

Ghost_new ==
  [pullCalls |-> 0, cancelCalls |-> 0, sizeCalls |-> 0, enq |-> 0,
   followUps |-> 0, lateSettled |-> FALSE, panicked |-> FALSE]

Init ==
  /\ stream = ReadableStream_new
  /\ \E c \in SourceConfigs :
       /\ controller = Controller_new(c)
       /\ source = Source_new(c)
  /\ readers = <<>>
  /\ reads = <<>>
  /\ ghost = Ghost_new
  /\ ts = TransformStream_new(NoTransformer)
  /\ cx = Rooting_new

StartFulfil ==
  /\ Live /\ MayGrow /\ source.start = "pending"
  /\ \E po \in PullOutcomes : Commit(start_fulfilled(World, po))

StartReject ==
  /\ Live /\ source.start = "pending"
  /\ \E e \in UserErrors : Commit(start_rejected(World, e))

PullFulfil ==
  /\ Live /\ MayGrow
  /\ \E id \in source.pulls, po \in PullOutcomes :
       Commit(Settled(pull_fulfilled(World, id, po)))

PullReject ==
  /\ Live
  /\ \E id \in source.pulls, e \in UserErrors :
       Commit(Settled(pull_rejected(World, id, e)))

GetReader ==
  /\ Live /\ MayGrow
  /\ \E mode \in {"absent", "byob", "default"} :
       Commit(getReader(World, mode))

NewDefaultReader ==
  /\ Live /\ MayGrow
  /\ Commit(DefaultReader_constructor(World))

NewByobReader ==
  /\ Live /\ MayGrow
  /\ Commit(ByobReader_constructor(World))

Read ==
  /\ Live /\ MayGrow
  /\ \E r \in DOMAIN readers, po \in PullOutcomes :
       /\ readers[r].kind = "Default"
       /\ Commit(DefaultReader_read(World, r, po))

ByobRead ==
  /\ Live /\ MayGrow
  /\ \E r \in DOMAIN readers, len \in ViewLens, el \in ElementSizes, po \in PullOutcomes :
       /\ readers[r].kind = "Byob"
       /\ len % el = 0
       /\ Commit(ByobReader_read(World, r, len, el, po))

ReaderCancel ==
  /\ Live
  /\ \E r \in DOMAIN readers, co \in CancelOutcomes :
       Commit(Reader_cancel(World, r, co))

StreamCancel ==
  /\ Live
  /\ \E co \in CancelOutcomes : Commit(ReadableStream_cancel(World, co))

ReleaseLock ==
  /\ Live
  /\ \E r \in DOMAIN readers : Commit(releaseLock(World, r))

Enqueue ==
  /\ Live /\ MayGrow /\ controller.kind = "Default"
  /\ \E so \in SizeOutcomes, po \in PullOutcomes :
       Commit(Counted(Default_enqueue(World, ghost.enq + 1, so, po)))

ByteEnqueue ==
  /\ Live /\ MayGrow /\ controller.kind = "ByteStream"
  /\ \E len \in ChunkLens, po \in PullOutcomes :
       Commit(Counted(ByteStream_enqueue(World, ghost.enq + 1, len, po)))

Close ==
  /\ Live
  /\ Commit(IF controller.kind = "Default" THEN Default_close(World)
            ELSE ByteStream_close(World))

Error ==
  /\ Live
  /\ \E e \in UserErrors : Commit(Controller_error_internal(World, e))

Next ==
  \/ StartFulfil \/ StartReject \/ PullFulfil \/ PullReject
  \/ GetReader \/ NewDefaultReader \/ NewByobReader
  \/ Read \/ ByobRead \/ ReaderCancel \/ StreamCancel \/ ReleaseLock
  \/ Enqueue \/ ByteEnqueue \/ Close \/ Error

Spec == Init /\ [][Next]_vars

(* ------------------- state machine: TransformStream -------------------- *)
CancelAlgorithmOutcomes == {"promise", "value", "throw"}
FlushOutcomes == {"promise", "value", "throw"}

TransformOutcomes == {"promise", "value", "throw"}

(* Bound on the write() calls and on the chunks one algorithm enqueues *)
MaxWrites == 2
MaxEnqueues == 1

Transformers ==
  [transform : BOOLEAN, flush : BOOLEAN, cancel : BOOLEAN]

StreamsIdle ==
  /\ stream = ReadableStream_new
  /\ controller = Controller_new(BareSource)
  /\ source = Source_new(BareSource)
  /\ readers = <<>>
  /\ reads = <<>>
  /\ ghost = Ghost_new

InitTS ==
  /\ StreamsIdle
  /\ \E tr \in Transformers : ts = TransformStream_new(tr)
  /\ cx = Rooting_new

CommitTS(t) ==
  /\ ts' = t
  /\ UNCHANGED <<stream, controller, readers, reads, source, ghost, cx>>

(* abort() on the writable half: the engine starts erroring it and calls the
   sink's abort algorithm, once *)
TSAbort ==
  /\ ts.abortRet = NoPromise
  /\ ts.write = "none"
  /\ ts.writable.state = "writable"
  /\ \E co \in CancelAlgorithmOutcomes :
       CommitTS(Sink_abort([ts EXCEPT !.writable.state = "erroring"], "r_abort", co))

(* cancel() on the readable half: the engine closes it and calls the
   source's cancel algorithm, which consumes the source *)
TSCancel ==
  /\ ts.cancelRet = NoPromise
  /\ ts.readable.state = "readable"
  /\ \E co \in CancelAlgorithmOutcomes :
       CommitTS(Source_cancel([ts EXCEPT !.readable.state = "closed",
                                         !.readable.queue = <<>>], "r_cancel", co))

(* close() on the writable half *)
TSClose ==
  /\ ts.closeRet = NoPromise
  /\ ts.write = "none"
  /\ ts.writable.state = "writable" /\ ~ts.writable.closing
  /\ CommitTS(Sink_close([ts EXCEPT !.writable.closing = TRUE]))

TSCloseRun ==
  /\ ts.closeFuture = "queued"
  /\ \E fo \in FlushOutcomes, n \in 0..MaxEnqueues : CommitTS(close_run(ts, fo, n))

(* The promise flush returned is fulfilled, after n more chunks *)
TSFlushFulfil ==
  /\ ts.closeFuture = "awaitFlush"
  /\ \E n \in 0..MaxEnqueues :
       LET r == UserEnqueues(ts, n, "f")
       IN CommitTS(close_finish(
            [r.t EXCEPT !.flushed = @ + Len(r.t.readable.queue) - Len(ts.readable.queue)]))

(* write() on the writable half: the engine calls the sink's write algorithm
   when no write is in flight and close() was not called *)
TSWrite ==
  /\ ts.write = "none" /\ ts.writes < MaxWrites
  /\ ts.writable.state = "writable" /\ ~ts.writable.closing
  /\ \E to \in TransformOutcomes, n \in 0..MaxEnqueues : CommitTS(Sink_write(ts, to, n))

TSTransformFulfil ==
  /\ ts.write = "pending"
  /\ CommitTS([ts EXCEPT !.write = "none"])

TSTransformReject ==
  /\ ts.write = "pending"
  /\ CommitTS(transform_rejected(ts, "e_transform_rejected"))

TSWriteFailed ==
  /\ ts.write = "rejected"
  /\ CommitTS(write_failed(ts))

TSWriteEnd ==
  /\ ts.write \in {"threw", "reacted"}
  /\ CommitTS(WritableStreamDealWithRejection(ts))

(* read() by the consumer of the readable half; done is read once *)
TSRead ==
  /\ \/ ts.readable.queue # <<>>
     \/ ts.readable.state = "closed" /\ ~InSeq("done", ts.delivered)
  /\ CommitTS(ReadableStreamRead(ts))

TSFlushReject ==
  /\ ts.closeFuture = "awaitFlush"
  /\ CommitTS(close_flush_rejected(ts, "e_flush_rejected"))

TSCancelFulfil ==
  /\ ts.userCancel = "pending"
  /\ CommitTS(cancel_fulfilled(ts))

TSCancelReject ==
  /\ ts.userCancel = "pending"
  /\ CommitTS(cancel_rejected(ts, "e_cancel_rejected"))

TSFinishReact ==
  /\ ts.reaction \in {"abort", "cancel"}
  /\ ts.promises[ts.finish_promise].st # "pending"
  /\ CommitTS(finish_reaction(ts))

(* TransformStreamDefaultController::error called by the transformer *)
TSControllerError ==
  /\ ts.error = NoError
  /\ CommitTS(TransformStream_error(ts, "e_user"))

NextTS ==
  \/ TSAbort \/ TSCancel \/ TSClose \/ TSCloseRun \/ TSFlushFulfil \/ TSFlushReject
  \/ TSCancelFulfil \/ TSCancelReject \/ TSFinishReact \/ TSControllerError
  \/ TSWrite \/ TSTransformFulfil \/ TSTransformReject \/ TSWriteFailed \/ TSWriteEnd
  \/ TSRead

SpecTS == InitTS /\ [][NextTS]_vars

(* ----------------------- state machine: rooting ------------------------ *)
InitCx ==
  /\ StreamsIdle
  /\ ts = TransformStream_new(NoTransformer)
  /\ cx = Rooting_new

CommitCx(x) ==
  /\ cx' = x
  /\ UNCHANGED <<stream, controller, readers, reads, source, ghost, ts>>

Alive == {c \in DOMAIN cx.contexts : cx.contexts[c].alive}

LiveLocals == {i \in DOMAIN cx.locals : cx.locals[i].live}

CxDuplicate ==
  /\ ~cx.panicked /\ Alive # {} /\ Len(cx.contexts) < MaxContexts
  /\ CommitCx(Context_duplicate(cx))

CxRoot ==
  /\ ~cx.panicked /\ Len(cx.locals) < MaxRoots
  /\ \E c \in Alive, k \in GCTypes : CommitCx(Context_root(cx, c, k))

(* Locals go out of scope in reverse order of creation *)
CxDropLocal ==
  /\ ~cx.panicked /\ LiveLocals # {}
  /\ \E i \in LiveLocals :
       /\ \A j \in LiveLocals : j <= i
       /\ CommitCx(Local_drop(cx, i))

(* A Context is dropped when no Local borrows it any more *)
CxDropContext ==
  /\ ~cx.panicked
  /\ \E c \in Alive :
       /\ \A i \in LiveLocals : cx.locals[i].context # c
       /\ CommitCx(Context_drop(cx, c))

NextCx == CxDuplicate \/ CxRoot \/ CxDropLocal \/ CxDropContext

SpecCx == InitCx /\ [][NextCx]_vars

(* ------------------- state machine: tasks and awaits ------------------- *)
InitAw ==
  /\ StreamsIdle
  /\ ts = TransformStream_new(NoTransformer)
  /\ cx = Rooting_new

Running == {t \in DOMAIN cx.tasks : cx.tasks[t].state = "running"}

Suspended == {t \in DOMAIN cx.tasks : cx.tasks[t].state = "suspended"}

(* The Context the code that runs now uses: that of the running task, else
   that of the event loop's poll in progress, else that of the runtime *)
Current ==
  IF Running # {} THEN {cx.tasks[t].context : t \in Running}
  ELSE IF cx.loop # 0 THEN {cx.loop} ELSE {1}

MayMake == Len(cx.contexts) + Len(cx.locals) < MaxAw

AwSpawn ==
  /\ ~cx.panicked /\ MayMake
  /\ \E c \in Current : CommitCx(future_to_promise(cx, c))

AwRoot ==
  /\ ~cx.panicked /\ MayMake
  /\ \E c \in Current : CommitCx(Context_root(cx, c, "Value"))

AwLoopEnter ==
  /\ ~cx.panicked /\ Running = {} /\ cx.loop = 0 /\ MayMake
  /\ CommitCx(Loop_enter(cx))

AwLoopExit ==
  /\ ~cx.panicked /\ Running = {} /\ cx.loop # 0
  /\ CommitCx(Loop_exit(cx))

AwStart ==
  /\ ~cx.panicked /\ Running = {}
  /\ \E t \in DOMAIN cx.tasks :
       /\ cx.tasks[t].state = "queued"
       /\ CommitCx(Task_start(cx, t))

AwFinish ==
  /\ ~cx.panicked
  /\ \E t \in Running : CommitCx(Task_finish(cx, t))

(* await_native with a future that is not ready at its first poll *)
AwAwaitNative ==
  /\ ~cx.panicked /\ MayMake
  /\ \E t \in Running : CommitCx(await_native_enter(cx, t))

(* await_native with a future that is ready at its first poll *)
AwAwaitReady ==
  /\ ~cx.panicked /\ MayMake
  /\ \E t \in Running, o \in FutureOutputs :
       LET x1 == await_native_enter(cx, t)
       IN CommitCx(IF x1.panicked THEN x1 ELSE await_native_return(x1, t, o))

AwAwaitPromise ==
  /\ ~cx.panicked /\ MayMake
  /\ \E t \in Running : CommitCx(PromiseFuture_new(cx, t))

(* The awaited future completes, or the awaited promise settles, with o *)
AwWake ==
  /\ ~cx.panicked
  /\ \E t \in Suspended, o \in FutureOutputs :
       /\ cx.tasks[t].fut \in {"pending", "promise"}
       /\ CommitCx([cx EXCEPT !.tasks[t].out = o,
                              !.tasks[t].fut = IF @ = "pending" THEN "ready" ELSE "settled"])

(* The next poll of a suspended task whose future is ready *)
AwResume ==
  /\ ~cx.panicked /\ Running = {}
  /\ \E t \in Suspended :
       \/ /\ cx.tasks[t].fut = "ready"
          /\ CommitCx(await_native_return(cx, t, cx.tasks[t].out))
       \/ /\ cx.tasks[t].fut = "settled"
          /\ CommitCx(PromiseFuture_poll(cx, t, cx.tasks[t].out))

NextAw ==
  \/ AwSpawn \/ AwRoot \/ AwLoopEnter \/ AwLoopExit \/ AwStart \/ AwFinish
  \/ AwAwaitNative \/ AwAwaitReady \/ AwAwaitPromise \/ AwWake \/ AwResume

SpecAw == InitAw /\ [][NextAw]_vars


(* ------------------------ properties: streams -------------------------- *)
Terminal == {"Closed", "Errored"}
Modes == {"absent", "byob", "default"}

Controller_should_call_pull(w) ==
  IF w.controller.kind = "Default" THEN Default_should_call_pull(w)
  ELSE ByteStream_should_call_pull(w)

(* The world with the exception of the last call forgotten *)
Quiet(w) == [w EXCEPT !.exc = NoExc]

(* n further read() calls on the default reader r, one after the other *)
RECURSIVE ReadN(_, _, _)
ReadN(w, r, n) ==
  IF n = 0 THEN w ELSE ReadN(DefaultReader_read(w, r, "value"), r, n - 1)

(* The stream with a default reader: the attached one, or a new one *)
WithReader(w) == IF get_locked(w) THEN w ELSE getReader(w, "absent")

(* C1: once the state of a stream is Closed or Errored no step changes it,
   and a stored error is never replaced by another one. *)
C1_TerminalStatesAreFinal ==
  [][ /\ (stream.state \in Terminal => stream'.state = stream.state)
      /\ (stream.error # NoError => stream'.error = stream.error) ]_vars

(* A stream that is Closed and on which a pull promise was settled later *)
C1_Witness ==
  /\ stream.state = "Closed"
  /\ ghost.lateSettled
  /\ Len(reads) > 0

C2_Attached == {r \in DOMAIN readers : readers[r].stream}

C2_Acquisitions(w) ==
  {getReader(w, m) : m \in Modes}
    \cup {DefaultReader_constructor(w), ByobReader_constructor(w)}

C2_Inv ==
  /\ Cardinality(C2_Attached) <= 1
  /\ \A r \in DOMAIN readers :
       readers[r].stream <=> (get_locked(World) /\ stream.reader_object = r)
  /\ get_locked(World) =>
       \A w \in C2_Acquisitions(World) : w.exc \in TypeErrors /\ Quiet(w) = World
  /\ ~get_locked(World) =>
       LET w == getReader(World, "absent")
       IN w.exc = NoExc /\ get_locked(w) /\ w.readers[get_reader(w)].stream

C2_Step ==
  get_locked(World) =>
    \/ /\ stream'.reader_kind = stream.reader_kind
       /\ stream'.reader_object = stream.reader_object
    \/ /\ stream'.reader_kind = "None"
       /\ ~readers'[stream.reader_object].stream
       /\ Quiet(releaseLock(World, stream.reader_object)).stream = stream'

(* C2: at most one reader is attached to the stream; while one is attached
   every getReader call and every reader construction fails with a TypeError
   and changes nothing, the attached reader stays until its releaseLock, and
   on an unlocked stream getReader() succeeds and locks it. *)
C2_AtMostOneReader == []C2_Inv /\ [][C2_Step]_vars

(* A second reader attached after the first one was released *)
C2_Witness ==
  /\ Len(readers) = 2
  /\ ~readers[1].stream
  /\ readers[2].stream
  /\ stream.reader_object = 2

(* C3: close() on a Default controller with a non-empty queue only records
   close_requested and leaves the stream Readable, the queued chunks are then
   delivered in FIFO order to the next reads before the stream closes; with an
   empty queue close() closes at once and resolves every outstanding request
   with done: true. *)
C3_CloseDefersUntilDrained ==
  (controller.kind = "Default" /\ can_close_or_enqueue(World)) =>
    LET w == Default_close(World)
        n == Len(controller.queue)
        r == get_reader(World)
    IN IF n > 0
       THEN /\ w.exc = NoExc
            /\ w.stream.state = "Readable"
            /\ w.controller.close_requested
            /\ w.controller.queue = controller.queue
            /\ LET w1 == WithReader(w)
                   w2 == ReadN(w1, get_reader(w1), n + 1)
                   base == Len(w1.reads)
               IN /\ \A i \in 1..n :
                       /\ w2.reads[base + i].st = "fulfilled"
                       /\ ~w2.reads[base + i].done
                       /\ w2.reads[base + i].value = controller.queue[i][1]
                  /\ w2.reads[base + n + 1].st = "fulfilled"
                  /\ w2.reads[base + n + 1].done
                  /\ w2.stream.state = "Closed"
       ELSE /\ w.stream.state = "Closed"
            /\ r # 0 =>
                 /\ w.readers[r].requests = <<>>
                 /\ \A i \in DOMAIN reads : InSeq(i, readers[r].requests) =>
                      w.reads[i].st = "fulfilled" /\ w.reads[i].done

(* C4: with a default reader attached and awaiting reads on a Default
   controller, enqueue(c1), enqueue(c2), close() make the reads, in request
   order, yield c1, c2 with done: false and then done: true. *)
C4_EnqueueThenCloseInOrder ==
  (/\ controller.kind = "Default"
   /\ can_close_or_enqueue(World)
   /\ stream.reader_kind = "Default"
   /\ readers[stream.reader_object].requests # <<>>) =>
    LET r == get_reader(World)
        w1 == Default_enqueue(World, 11, 1, "value")
        w2 == Default_enqueue(w1, 12, 1, "value")
        w3 == Default_close(w2)
        w4 == ReadN(w3, r, 3)
        order == readers[r].requests \o [i \in 1..3 |-> Len(reads) + i]
        result(i) == w4.reads[order[i]]
    IN /\ w3.exc = NoExc
       /\ result(1).st = "fulfilled" /\ ~result(1).done /\ result(1).value = 11
       /\ result(2).st = "fulfilled" /\ ~result(2).done /\ result(2).value = 12
       /\ result(3).st = "fulfilled" /\ result(3).done

(* The read that follows the error on the attached reader r *)
C5_NextRead(w, r) ==
  IF w.readers[r].kind = "Default" THEN DefaultReader_read(w, r, "promise")
  ELSE ByobReader_read(w, r, 1, 1, "promise")

(* C5: erroring the controller of a Readable stream with e rejects every
   outstanding read request of the attached reader and its closed promise
   with e, leaves no returned read of that reader pending, and a read issued
   afterwards is rejected with e at once. *)
C5_ErrorBroadcast ==
  stream.state = "Readable" =>
    \A e \in UserErrors :
      LET w == Controller_error_internal(World, e)
          r == get_reader(World)
      IN /\ w.exc = NoExc
         /\ w.stream.state = "Errored"
         /\ w.stream.error = e
         /\ r # 0 =>
              /\ \A i \in DOMAIN reads : InSeq(i, readers[r].requests) =>
                   w.reads[i].st = "rejected" /\ w.reads[i].err = e
              /\ w.readers[r].closed.st = "rejected"
              /\ w.readers[r].closed.err = e
              /\ w.readers[r].requests = <<>>
              /\ \A i \in DOMAIN reads :
                   (reads[i].reader = r /\ reads[i].returned) => w.reads[i].st # "pending"
              /\ LET w1 == C5_NextRead(w, r)
                     last == w1.reads[Len(w1.reads)]
                 IN /\ w1.exc = NoExc
                    /\ Len(w1.reads) = Len(reads) + 1
                    /\ last.st = "rejected"
                    /\ last.err = e

(* An errored stream whose reader had two outstanding reads rejected with
   the stored error, as its closed promise was *)
C5_Witness ==
  /\ stream.state = "Errored"
  /\ stream.error \in UserErrors
  /\ \E r \in DOMAIN readers :
       /\ readers[r].stream
       /\ readers[r].closed.st = "rejected"
       /\ readers[r].closed.err = stream.error
       /\ Cardinality({i \in DOMAIN reads :
                         reads[i].reader = r /\ reads[i].err = stream.error}) >= 2

C6_Inv ==
  /\ Cardinality(source.pulls) <= 1
  /\ source.pulls # {} => controller.pulling
  /\ controller.pulling =>
       \A po \in PullOutcomes :
         LET w == Controller_pull_if_needed(World, po)
         IN /\ w.ghost.pullCalls = ghost.pullCalls
            /\ w = [World EXCEPT !.controller.pull_again =
                      controller.pull_again \/ Controller_should_call_pull(World)]

C6_Step ==
  (controller.pulling /\ source.pulls \subseteq source'.pulls) =>
    ghost'.pullCalls = ghost.pullCalls

(* C6: pull is never re-entered: at most one promise returned by pull is
   unsettled, and while the pulling flag is set a step that does not fulfil
   that promise invokes pull zero times, a pull_if_needed trigger changing
   nothing but pull_again; for Default and ByteStream controllers. *)
C6_PullNotReentered == []C6_Inv /\ [][C6_Step]_vars

(* A byte stream with a pull in flight during which a trigger arrived *)
C6_Witness ==
  /\ controller.kind = "ByteStream"
  /\ source.pulls # {}
  /\ controller.pull_again
  /\ ghost.pullCalls = 1

(* C7: a trigger that arrives while pulling is set is recorded in pull_again,
   and the fulfilment of the pull promise then clears pull_again and invokes
   pull once if should_call_pull holds and not at all otherwise. *)
C7_PullAgainCoalesced ==
  /\ (controller.pulling /\ Controller_should_call_pull(World)) =>
       \A po \in PullOutcomes :
         Controller_pull_if_needed(World, po).controller.pull_again
  /\ controller.pull_again =>
       \A id \in source.pulls, po \in PullOutcomes :
         LET w == pull_fulfilled(World, id, po)
         IN /\ ~w.controller.pull_again
            /\ w.ghost.pullCalls =
                 ghost.pullCalls + (IF Controller_should_call_pull(World) THEN 1 ELSE 0)

(* The follow-up pull was made by the fulfilment reaction *)
C7_Witness ==
  /\ ghost.followUps = 1
  /\ ghost.pullCalls = 2
  /\ ~controller.pull_again
  /\ controller.pulling

C8_Calls(g) == <<g.pullCalls, g.cancelCalls, g.sizeCalls>>

C8_Inv ==
  stream.state = "Errored" =>
    /\ ~controller.pull /\ ~controller.cancel /\ ~controller.size
    /\ \A id \in source.pulls :
         /\ \A po \in PullOutcomes :
              LET w == pull_fulfilled(World, id, po)
              IN C8_Calls(w.ghost) = C8_Calls(ghost) /\ w.stream = stream
         /\ \A e \in UserErrors :
              LET w == pull_rejected(World, id, e)
              IN C8_Calls(w.ghost) = C8_Calls(ghost) /\ w.stream = stream

C8_Step ==
  stream.state = "Errored" =>
    /\ C8_Calls(ghost') = C8_Calls(ghost)
    /\ stream'.state = "Errored"
    /\ stream'.error = stream.error

(* C8: once the stream is Errored the references to pull, cancel and size
   are dropped and no step invokes any of them; the settlement of a pull
   promise that was in flight invokes nothing and leaves the state and the
   stored error as they are. *)
C8_NoAlgorithmAfterError == []C8_Inv /\ [][C8_Step]_vars

(* An errored stream whose in-flight pull promise was settled afterwards *)
C8_Witness ==
  /\ stream.state = "Errored"
  /\ ghost.lateSettled
  /\ ghost.pullCalls > 0
  /\ source.pulls = {}

(* --------------------- properties: TransformStream --------------------- *)
C9_SameOutcome(a, c) ==
  /\ a.abortRet = c.cancelRet
  /\ c.abortRet = c.cancelRet
  /\ c.promises[c.abortRet] = c.promises[c.cancelRet]
  /\ c.finish_promise = c.cancelRet

C9_Inv ==
  /\ ts.cancelCalls <= 1
  /\ (ts.transformer.cancel /\ ts.creator \in {"abort", "cancel"}) => ts.cancelCalls = 1
  /\ (ts.abortRet # NoPromise /\ ts.cancelRet # NoPromise) =>
       /\ ts.abortRet = ts.cancelRet
       /\ ts.finish_promise = ts.abortRet
  /\ (ts.abortRet = NoPromise /\ ts.cancelRet = NoPromise) =>
       \A c1 \in CancelAlgorithmOutcomes, c2 \in CancelAlgorithmOutcomes :
         LET a1 == Sink_abort(ts, "r_abort", c1)
             b1 == Source_cancel(a1, "r_cancel", c2)
             a2 == Source_cancel(ts, "r_cancel", c1)
             b2 == Sink_abort(a2, "r_abort", c2)
         IN /\ C9_SameOutcome(a1, b1) /\ C9_SameOutcome(b2, b2)
            /\ a2.cancelRet = b2.abortRet
            /\ b1.cancelCalls = a1.cancelCalls
            /\ b2.cancelCalls = a2.cancelCalls
            /\ b1.cancelCalls <= 1 /\ b2.cancelCalls <= 1
            /\ b1.promises[b1.abortRet] = b2.promises[b2.abortRet]

C9_Step ==
  /\ ts.finish_promise # NoPromise => ts'.finish_promise = ts.finish_promise
  /\ ts'.cancelCalls >= ts.cancelCalls
  /\ \A i \in DOMAIN ts.promises :
       ts.promises[i].st # "pending" => ts'.promises[i] = ts.promises[i]

(* C9: abort() on the writable half and cancel() on the readable half, in
   either order, return the one memoized finish promise and so settle alike;
   the finish promise, once made, is never replaced nor settled twice, and
   the transformer's cancel algorithm is invoked at most once, exactly once
   when it exists and abort or cancel made the finish promise. *)
C9_AbortAndCancelShareFinish == []C9_Inv /\ [][C9_Step]_vars

(* abort and cancel were both called, the cancel algorithm ran once and the
   promise both calls returned is rejected *)
C9_Witness ==
  /\ ts.abortRet # NoPromise
  /\ ts.cancelRet = ts.abortRet
  /\ ts.cancelCalls = 1
  /\ ts.promises[ts.abortRet].st = "rejected"
  /\ ts.reaction = "done"

(* ------------------------- properties: rooting ------------------------- *)
Range(s) == {s[i] : i \in DOMAIN s}

Linked == UNION {Range(cx.stack[k]) : k \in GCTypes}

SlotsOfLiveLocals == {cx.locals[i].slot : i \in LiveLocals}

SlotsOfAliveContexts ==
  {cx.locals[i].slot : i \in {j \in DOMAIN cx.locals : cx.contexts[cx.locals[j].context].alive}}

(* C10: at every point of a sequence of Context::root calls and drops of the
   Locals in reverse order of creation the slots linked into the engine's
   root stack are the slots whose Local is still live, and none is linked
   after all drops. *)
C10_LinkedAreLiveLocals ==
  ~cx.panicked => Linked = SlotsOfLiveLocals

(* C10, amended: the end of the scope of a Local unlinks nothing; the linked
   slots are the slots rooted through the Contexts that are not yet dropped,
   whether their Locals are live or not, and none is linked once every
   Context is dropped. *)
C10_LinkedUntilContextDrop ==
  ~cx.panicked =>
    /\ Linked = SlotsOfAliveContexts
    /\ SlotsOfLiveLocals \subseteq Linked
    /\ Alive = {} => Linked = {}

(* Two slots rooted, both Locals out of scope and both slots still linked,
   the Context not yet dropped *)
C10_Witness ==
  /\ ~cx.panicked
  /\ Len(cx.locals) >= 2
  /\ LiveLocals = {}
  /\ Alive # {}
  /\ Cardinality(Linked) >= 2

(* The slots rooted through the Context c, in the order of rooting *)
RootedThrough(x, c) ==
  LET RECURSIVE From(_)
      From(i) == IF i > Len(x.locals) THEN <<>>
                 ELSE IF x.locals[i].context = c
                      THEN <<x.locals[i].slot>> \o From(i + 1)
                      ELSE From(i + 1)
  IN From(1)

Reverse(s) == [i \in 1..Len(s) |-> s[Len(s) + 1 - i]]

IsPrefix(s, t) == Len(s) <= Len(t) /\ SubSeq(t, 1, Len(s)) = s

(* A Context can be destroyed when no Local borrows it *)
Droppable == {c \in Alive : \A i \in LiveLocals : cx.locals[i].context # c}

(* C11: the destruction of a Context unlinks the slots rooted through it one
   by one in the exact reverse of the order of rooting, all kinds together,
   each slot once, and never asks an arena for a slot it does not have; when
   no unlink trips the engine's top-of-stack assertion all of them are
   unlinked, no other slot is, and the order log is empty afterwards. *)
C11_TeardownReverseOrder ==
  ~cx.panicked =>
    \A c \in Droppable :
      LET d == Context_drop(cx, c)
          mine == RootedThrough(cx, c)
          done == d.unlinks
      IN /\ ~d.exhausted
         /\ IsPrefix(done, Reverse(mine))
         /\ \A i, j \in DOMAIN d.unlinks : d.unlinks[i] = d.unlinks[j] => i = j
         /\ ~d.panicked =>
              /\ done = Reverse(mine)
              /\ d.contexts[c].order = <<>>
              /\ ~d.contexts[c].alive
              /\ UNION {Range(d.stack[k]) : k \in GCTypes} = Linked \ Range(mine)

(* A Context destroyed after it rooted three slots of two kinds with the
   kinds alternating, the slots unlinked as 3, 2, 1 *)
C11_Witness ==
  /\ ~cx.panicked
  /\ Len(cx.locals) = 3
  /\ cx.locals[1].kind # cx.locals[2].kind
  /\ cx.locals[3].kind = cx.locals[1].kind
  /\ \A i \in 1..3 : cx.locals[i].context = 1
  /\ ~cx.contexts[1].alive
  /\ cx.unlinks = <<3, 2, 1>>

(* --------------------- properties: tasks and awaits -------------------- *)
(* The slots rooted through the Contexts the task t has owned *)
SlotsOfTask(t) ==
  {cx.locals[i].slot : i \in {j \in DOMAIN cx.locals : cx.locals[j].context \in cx.tasks[t].had}}

AwaitingNative == {t \in Suspended : cx.tasks[t].fut \in {"pending", "ready"}}

C12_Inv ==
  \A t \in AwaitingNative :
    /\ cx.tasks[t].context = 0
    /\ \A c \in cx.tasks[t].had : ~cx.contexts[c].alive
    /\ SlotsOfTask(t) \cap Linked = {}

C12_Step ==
  \A t \in DOMAIN cx.tasks :
    LET a == cx.tasks[t]
        b == cx'.tasks[t]
    IN (b.had # a.had) =>
         /\ a.fut = "ready" \/ a.state = "running" \/ a.fut = "settled"
         /\ a.fut = "ready" => b.got = a.out
         /\ b.got \in FutureOutputs
         /\ b.state = "running"
         /\ b.context = Len(cx.contexts) + 1
         /\ b.had = a.had \cup {b.context}
         /\ cx'.contexts[b.context] = Context_new
         /\ \A c \in a.had : ~cx'.contexts[c].alive

(* C12: Context::await_native destroys the Context it consumes, unlinking all
   of its roots, before the future is polled, the task holds no Context and
   no linked root while the future is pending, and the fresh Context is made
   only once the future has completed and is returned with its output. *)
C12_AwaitNativeDropsFirst == []C12_Inv /\ [][C12_Step]_vars

(* A task waiting in await_native for a pending future after it rooted a slot,
   the slot unlinked, while another slot is linked *)
C12_Witness ==
  /\ ~cx.panicked
  /\ \E t \in AwaitingNative :
       /\ cx.tasks[t].fut = "pending"
       /\ \E i \in DOMAIN cx.locals :
            cx.locals[i].context \in cx.tasks[t].had /\ cx.locals[i].kind = "Value"
  /\ Linked # {}

(* C13: while tasks started through future_to_promise are interleaved, a task
   suspended in await_native or on a PromiseFuture holds no Context and no
   linked root, and no unlink ever meets a slot that is not the top of its
   root list. *)
C13_SuspendedHoldNoRoot ==
  /\ ~cx.panicked
  /\ ~cx.exhausted
  /\ \A t \in Suspended :
       /\ cx.tasks[t].context = 0
       /\ \A c \in cx.tasks[t].had : ~cx.contexts[c].alive
       /\ SlotsOfTask(t) \cap Linked = {}

(* Two tasks that both rooted a slot: the first is suspended and its slot is
   unlinked, the second one runs meanwhile and its slot is linked *)
C13_Witness ==
  /\ ~cx.panicked
  /\ Len(cx.tasks) = 2
  /\ cx.tasks[1].state = "suspended"
  /\ cx.tasks[2].state = "running"
  /\ \E i, j \in DOMAIN cx.locals :
       /\ i < j
       /\ cx.locals[i].kind = "Value" /\ cx.locals[i].context \in cx.tasks[1].had
       /\ cx.locals[i].slot \notin Linked
       /\ cx.locals[j].kind = "Value" /\ cx.locals[j].context \in cx.tasks[2].had
       /\ cx.locals[j].slot \in Linked

(* ------------------- properties: readers and byte streams --------------- *)
(* The returned reads of the reader r that are still pending in w *)
PendingReads(w, r) ==
  {i \in DOMAIN w.reads :
     w.reads[i].reader = r /\ w.reads[i].returned /\ w.reads[i].st = "pending"}

(* What releaseLock does to the stream, the closed promise and the listed
   requests of the attached reader r *)
C14_Released(r) ==
  LET w == releaseLock(World, r)
  IN /\ w.exc = NoExc
     /\ ~get_locked(w)
     /\ w.stream.reader_kind = "None"
     /\ ~w.readers[r].stream
     /\ stream.state = "Readable" =>
          /\ w.readers[r].closed.st = "rejected"
          /\ w.readers[r].closed.err = E_ReleasedReader
     /\ \A i \in DOMAIN reads : InSeq(i, readers[r].requests) =>
          w.reads[i].st = "rejected" /\ w.reads[i].err = E_HasBeenReleased
     /\ w.readers[r].requests = <<>>

(* C14: releaseLock() on an attached reader, default or BYOB, unlocks the
   stream and clears the reader kind, rejects the reader's closed promise if
   the stream is Readable, rejects each outstanding read request with the
   reader-released error, and leaves no read promise of that reader pending. *)
C14_ReleaseLockFailsReads ==
  \A r \in DOMAIN readers : readers[r].stream =>
    /\ C14_Released(r)
    /\ PendingReads(releaseLock(World, r), r) = {}

(* C16: read(view) with a valid view on a BYOB reader whose stream is Closed
   returns a promise that is resolved with an empty result and done: true,
   whatever descriptors earlier reads left with the controller. *)
C16_ByobReadOnClosedIsDone ==
  \A r \in DOMAIN readers :
    (readers[r].stream /\ readers[r].kind = "Byob" /\ stream.state = "Closed") =>
      \A len \in ViewLens \ {0}, el \in ElementSizes, po \in PullOutcomes :
        len % el = 0 =>
        LET w == ByobReader_read(World, r, len, el, po)
            last == w.reads[Len(w.reads)]
        IN /\ w.exc = NoExc
           /\ Len(w.reads) = Len(reads) + 1
           /\ last.st = "fulfilled"
           /\ last.done
           /\ last.value = 0

(* getReader with the given mode gives a default reader *)
C15_GivesDefault(mode) ==
  LET w == getReader(World, mode)
  IN /\ w.exc = NoExc
     /\ w.stream.reader_kind = "Default"
     /\ w.readers[get_reader(w)].kind = "Default"
     /\ w.readers[get_reader(w)].stream

(* C15: on an unlocked stream getReader() and getReader({mode: "default"})
   give a default reader whatever the controller kind, getReader({mode:
   "byob"}) succeeds exactly on a ByteStream controller, and a getReader call
   that fails leaves the stream unlocked. *)
C15_GetReaderModes ==
  ~get_locked(World) =>
    /\ C15_GivesDefault("absent")
    /\ C15_GivesDefault("default")
    /\ (getReader(World, "byob").exc = NoExc) <=> (controller.kind = "ByteStream")
    /\ \A mode \in Modes :
         getReader(World, mode).exc # NoExc => ~get_locked(getReader(World, mode))

(* Length of the runs of enqueue and read calls *)
MaxOps == 4

(* The calls of a run: enqueue(chunk of len bytes), read(view of len bytes
   with elements of el bytes) *)
C17_Ops ==
  {[op |-> "enqueue", len |-> l, el |-> 1] : l \in ChunkLens \ {0}}
    \cup {[op |-> "read", len |-> v[1], el |-> v[2]] :
            v \in {x \in (ViewLens \ {0}) \X ElementSizes : x[1] % x[2] = 0}}

C17_Runs == UNION {[1..n -> C17_Ops] : n \in 1..MaxOps}

(* The n-th call of a run on the BYOB reader r; its chunk is numbered 100 + n *)
C17_Do(w, r, o, n) ==
  Quiet(IF o.op = "enqueue" THEN ByteStream_enqueue(w, 100 + n, o.len, "value")
        ELSE ByobReader_read(w, r, o.len, o.el, "value"))

RECURSIVE C17_Run(_, _, _, _)
C17_Run(w, r, ops, n) ==
  IF n > Len(ops) THEN w ELSE C17_Run(C17_Do(w, r, ops[n], n), r, ops, n + 1)

(* The bytes of the chunks the run enqueues, in enqueue order *)
RECURSIVE C17_Enqueued(_, _)
C17_Enqueued(ops, n) ==
  IF n > Len(ops) THEN <<>>
  ELSE (IF ops[n].op = "enqueue" THEN [k \in 1..ops[n].len |-> <<100 + n, k - 1>>] ELSE <<>>)
         \o C17_Enqueued(ops, n + 1)

(* The bytes the fulfilled reads of the reader r hold, in the order of the reads *)
RECURSIVE C17_Delivered(_, _, _)
C17_Delivered(w, r, i) ==
  IF i > Len(w.reads) THEN <<>>
  ELSE (IF w.reads[i].reader = r /\ w.reads[i].st = "fulfilled" THEN w.reads[i].bytes ELSE <<>>)
         \o C17_Delivered(w, r, i + 1)

(* Nothing is left to read: the queue is empty and no descriptor is part filled *)
C17_Consumed(w) ==
  /\ w.controller.queue_size = 0
  /\ \A i \in DOMAIN w.controller.pending_descriptors :
       w.controller.pending_descriptors[i].filled = 0

(* A Readable byte stream with a BYOB reader and nothing enqueued or read yet *)
C17_Fresh ==
  /\ controller.kind = "ByteStream"
  /\ stream.state = "Readable"
  /\ stream.reader_kind = "Byob"
  /\ ~controller.close_requested
  /\ controller.queue = <<>> /\ controller.queue_size = 0
  /\ controller.pending_descriptors = <<>>
  /\ \A i \in DOMAIN reads : reads[i].reader # stream.reader_object

(* C17: on a byte stream read through a BYOB reader, for every split of the
   enqueued bytes into enqueue calls and every sequence of read views, the
   reads deliver the enqueued bytes in enqueue order, none twice and none
   dropped: what was delivered is a prefix of what was enqueued, and all of
   it once nothing is left to read. *)
C17_ByobByteAccounting ==
  C17_Fresh =>
    \A ops \in C17_Runs :
      LET r == stream.reader_object
          w == C17_Run(World, r, ops, 1)
          out == C17_Delivered(w, r, 1)
          inp == C17_Enqueued(ops, 1)
      IN /\ IsPrefix(out, inp)
         /\ C17_Consumed(w) => out = inp

(* Total length of the entries of a byte queue *)
RECURSIVE QueueBytes(_)
QueueBytes(q) == IF q = <<>> THEN 0 ELSE Head(q)[3] + QueueBytes(Tail(q))

(* The descriptors ByobReader::read makes for views of v[1] bytes with
   elements of v[2] bytes, with f bytes filled already; the buffer has v[1]
   bytes *)
C18_Descriptors ==
  UNION {
    {[length |-> v[1] * v[2], filled |-> f, element |-> v[2], kind |-> "Byob",
      cap |-> v[1], data |-> [k \in 1..f |-> <<0, k - 1>>]] : f \in 0..(v[1] - 1)} :
    v \in {x \in (ViewLens \ {0}) \X ElementSizes : x[1] % x[2] = 0}}

C18_Holds(d) ==
  LET res == fill_pull_into_descriptor(World, d)
      copied == res.d.filled - d.filled
  IN /\ res.d.filled <= d.length
     /\ res.ready => (res.d.filled > 0 /\ res.d.filled % d.element = 0)
     /\ res.d.filled % d.element # 0 => res.w.controller.queue_size = 0
     /\ copied >= 0
     /\ res.w.controller.queue_size = controller.queue_size - copied
     /\ QueueBytes(res.w.controller.queue) = QueueBytes(controller.queue) - copied
     /\ Len(res.d.data) = res.d.filled

(* C18: fill_pull_into_descriptor never fills a descriptor beyond its length,
   reports it ready only with a positive whole number of elements filled,
   leaves the bytes beyond the last whole element in the queue unless it
   drains the queue, and takes from queue_size and from the queue exactly the
   bytes it copied, whatever the lengths of the queue entries. *)
C18_FillAlignedAndConserving ==
  controller.kind = "ByteStream" => \A d \in C18_Descriptors : C18_Holds(d)

(* ----------------------- properties: backpressure ----------------------- *)
(* Total of the sizes of the chunks in the queue of a Default controller *)
RECURSIVE QueueTotal(_)
QueueTotal(q) == IF q = <<>> THEN 0 ELSE Head(q)[2] + QueueTotal(Tail(q))

(* enqueue on the Default controller accepts the chunk: it goes to the oldest
   outstanding read or to the end of the queue, and nothing is raised *)
C19_Accepted(w, chunk, size) ==
  LET r == get_reader(World)
      waiting == stream.reader_kind = "Default" /\ readers[r].requests # <<>>
  IN /\ w.exc = NoExc
     /\ w.stream.state = "Readable"
     /\ IF waiting
        THEN LET req == Head(readers[r].requests)
             IN w.reads[req].st = "fulfilled" /\ w.reads[req].value = chunk /\ ~w.reads[req].done
        ELSE /\ w.controller.queue = Append(controller.queue, <<chunk, size>>)
             /\ w.controller.queue_size = controller.queue_size + size
             /\ Default_get_desired_size(w)
                  = controller.high_water_mark - (controller.queue_size + size)

(* enqueue("a"), enqueue("b") with highWaterMark 1 and no reader, then a
   reader and two reads; the chunks are numbered 21 and 22 *)
C19_Scenario ==
  LET w1 == Default_enqueue(World, 21, 1, "value")
      w2 == Default_enqueue(w1, 22, 1, "value")
      w3 == getReader(w2, "absent")
      w4 == ReadN(w3, get_reader(w3), 2)
      n == Len(reads)
  IN /\ w1.exc = NoExc /\ w2.exc = NoExc
     /\ Default_get_desired_size(w2) < 0
     /\ Default_get_desired_size(w2)
          = controller.high_water_mark - QueueTotal(w2.controller.queue)
     /\ w3.exc = NoExc /\ w3.stream.reader_kind = "Default"
     /\ w4.reads[n + 1].st = "fulfilled" /\ w4.reads[n + 1].value = 21 /\ ~w4.reads[n + 1].done
     /\ w4.reads[n + 2].st = "fulfilled" /\ w4.reads[n + 2].value = 22 /\ ~w4.reads[n + 2].done

(* C19: on a Readable Default controller with close not requested enqueue
   succeeds however full the queue is and desiredSize is highWaterMark minus
   queue_size; with highWaterMark 1 and no reader two enqueues succeed and
   make desiredSize, highWaterMark minus the total size queued, negative, and
   a reader acquired afterwards reads the two chunks in enqueue order with
   done: false. *)
C19_BackpressureAdvisory ==
  (controller.kind = "Default" /\ can_close_or_enqueue(World)) =>
    /\ \A size \in {x \in SizeOutcomes : x > 0}, po \in PullOutcomes \ {"throw"} :
         C19_Accepted(Default_enqueue(World, 21, IF controller.size THEN size ELSE 1, po),
                      21, IF controller.size THEN size ELSE 1)
    /\ (/\ controller.high_water_mark = 1
        /\ ~controller.size
        /\ ~get_locked(World)
        /\ controller.queue = <<>> /\ controller.queue_size = 0) => C19_Scenario

(* Two chunks were enqueued without a reader on a controller with
   highWaterMark 1, desiredSize is negative, and the reader acquired
   afterwards has read the first chunk *)
C19_Witness ==
  /\ controller.kind = "Default"
  /\ controller.high_water_mark = 1
  /\ stream.state = "Readable"
  /\ ghost.enq = 2
  /\ Default_get_desired_size(World) < 0
  /\ Len(reads) = 1
  /\ reads[1].st = "fulfilled" /\ reads[1].value = 1 /\ ~reads[1].done
  /\ Len(controller.queue) = 1 /\ controller.queue[1][1] = 2

(* ------------------- properties: enqueue after close -------------------- *)
(* close() on the controller of w *)
C20_Close(w) ==
  IF w.controller.kind = "Default" THEN Default_close(w) ELSE ByteStream_close(w)

(* The outcomes of every enqueue() and close() call on the controller of w *)
C20_Calls(w) ==
  {C20_Close(w)}
    \cup (IF w.controller.kind = "Default"
          THEN {Default_enqueue(w, 21, so, po) : so \in SizeOutcomes, po \in PullOutcomes}
          ELSE {ByteStream_enqueue(w, 21, len, po) : len \in ChunkLens, po \in PullOutcomes})

(* Every enqueue() and close() call on w fails with a TypeError and changes nothing *)
C20_Refused(w) ==
  \A x \in C20_Calls(w) : x.exc \in TypeErrors /\ Quiet(x) = Quiet(w)

(* C20: after close() was accepted by the controller, and whenever the stream
   is Closed or Errored, every enqueue() and close() call fails with a
   TypeError and changes nothing: no chunk is queued or delivered, no read
   request is settled, state, queue and close_requested stay as they were. *)
C20_NoEnqueueAfterClose ==
  /\ (stream.state \in Terminal \/ controller.close_requested) => C20_Refused(World)
  /\ can_close_or_enqueue(World) =>
       LET w == C20_Close(World)
       IN w.exc = NoExc => C20_Refused(w)

(* A stream closed by an accepted close() while a read was outstanding: the
   read was answered done: true and close_requested is set *)
C20_Witness ==
  /\ stream.state = "Closed"
  /\ controller.close_requested
  /\ ghost.enq > 0
  /\ \E i \in DOMAIN reads : reads[i].st = "fulfilled" /\ reads[i].done

(* -------------------- properties: enqueue and requests ------------------ *)
(* The outcome w of enqueue(chunk) when the size algorithm gives so: with a
   read request outstanding on the attached default reader the oldest one is
   answered and nothing else changes, otherwise (chunk, size) is appended *)
C21_Served(w, chunk, so) ==
  LET r == get_reader(World)
      waiting == stream.reader_kind = "Default" /\ readers[r].requests # <<>>
      size == IF controller.size THEN so ELSE 1
  IN IF waiting
     THEN LET req == Head(readers[r].requests)
          IN /\ w.exc = NoExc
             /\ w.reads[req].st = "fulfilled" /\ w.reads[req].value = chunk
             /\ ~w.reads[req].done
             /\ reads[req].st = "pending"
             /\ w.readers[r].requests = Tail(readers[r].requests)
             /\ \A i \in DOMAIN reads : i # req => w.reads[i] = reads[i]
             /\ w.controller = controller
             /\ w.ghost.sizeCalls = ghost.sizeCalls
             /\ w.ghost.pullCalls = ghost.pullCalls
     ELSE /\ w.controller.queue = Append(controller.queue, <<chunk, size>>)
          /\ w.controller.queue_size = controller.queue_size + size
          /\ w.reads = reads
          /\ w.ghost.sizeCalls = ghost.sizeCalls + (IF controller.size THEN 1 ELSE 0)

(* C21: enqueue(chunk) on a Default controller whose attached default reader
   has outstanding read requests resolves the oldest one with value chunk and
   done false and leaves queue and queue_size alone without calling the size
   algorithm; otherwise it appends (chunk, size), size being 1 without a size
   algorithm.  A non-empty queue and outstanding read requests never coexist,
   and the reads of a reader are answered in the order they were made, with
   the chunks in the order they were enqueued. *)
C21_EnqueueServesOldest ==
  controller.kind = "Default" =>
    /\ can_close_or_enqueue(World) =>
         \A so \in {x \in SizeOutcomes : x > 0}, po \in PullOutcomes :
           C21_Served(Default_enqueue(World, 21, so, po), 21, so)
    /\ controller.queue # <<>> => \A r \in DOMAIN readers : readers[r].requests = <<>>
    /\ \A i, j \in DOMAIN reads :
         (i < j /\ reads[j].st = "fulfilled" /\ ~reads[j].done) =>
           /\ reads[i].reader = reads[j].reader => reads[i].st # "pending"
           /\ (reads[i].st = "fulfilled" /\ ~reads[i].done) => reads[i].value < reads[j].value

(* Two reads were outstanding when a chunk was enqueued on a controller with
   a size algorithm: the first read has the chunk, the second is still
   outstanding, the queue is empty and the size algorithm was not called *)
C21_Witness ==
  /\ controller.kind = "Default" /\ controller.size
  /\ stream.state = "Readable"
  /\ Len(reads) = 2
  /\ reads[1].st = "fulfilled" /\ reads[1].value = 1 /\ ~reads[1].done
  /\ reads[2].st = "pending"
  /\ readers[get_reader(World)].requests = <<2>>
  /\ controller.queue = <<>> /\ controller.queue_size = 0
  /\ ghost.enq = 1 /\ ghost.sizeCalls = 0

(* ------------------ properties: throwing size algorithm ----------------- *)
(* The next read() on w: by the attached default reader, or by the reader a
   getReader() call gives when none is attached *)
C22_NextRead(w, po) ==
  LET w1 == IF get_locked(w) THEN w ELSE getReader(w, "absent")
      w2 == DefaultReader_read(w1, get_reader(w1), po)
  IN w2.reads[Len(w2.reads)]

(* C22: when the size algorithm throws while enqueue computes the size of a
   chunk, the stream becomes Errored with the thrown exception as its stored
   error, the chunk is not queued, the queue is cleared, and the read() calls
   made afterwards reject with that exception. *)
C22_SizeThrowErrorsStream ==
  (/\ controller.kind = "Default" /\ controller.size
   /\ can_close_or_enqueue(World)
   /\ ~(stream.reader_kind = "Default" /\ readers[get_reader(World)].requests # <<>>)) =>
    \A po \in PullOutcomes :
      LET w == Default_enqueue(World, 21, SizeThrows, po) IN
      /\ w.stream.state = "Errored"
      /\ w.stream.error = "e_size"
      /\ w.controller.queue = <<>> /\ w.controller.queue_size = 0
      /\ w.ghost.sizeCalls = ghost.sizeCalls + 1
      /\ w.ghost.pullCalls = ghost.pullCalls
      /\ \A p2 \in PullOutcomes :
           LET rd == C22_NextRead(w, p2)
           IN rd.st = "rejected" /\ rd.err = "e_size" /\ rd.returned

(* The size algorithm threw on the second chunk while the first was queued:
   the stream is Errored with that exception, the queue is empty and a read
   made afterwards was rejected with it *)
C22_Witness ==
  /\ controller.kind = "Default"
  /\ stream.state = "Errored" /\ stream.error = "e_size"
  /\ ghost.enq = 2 /\ ghost.sizeCalls = 2
  /\ controller.queue = <<>> /\ controller.queue_size = 0
  /\ Len(reads) = 1 /\ reads[1].st = "rejected" /\ reads[1].err = "e_size"

(* --------------------- properties: the closed promise ------------------- *)
(* The closed promise of every reader that holds its stream follows the
   state of the stream; a released reader has the rejection of releaseLock *)
C23_Inv ==
  \A r \in DOMAIN readers :
    LET closed == readers[r].closed IN
    IF readers[r].stream
    THEN /\ get_reader(World) = r
         /\ stream.state = "Readable" => closed.st = "pending"
         /\ stream.state = "Closed" => closed.st = "fulfilled" /\ closed.value = Undefined
         /\ stream.state = "Errored" => closed.st = "rejected" /\ closed.err = stream.error
    ELSE closed.st = "rejected" /\ closed.err = E_ReleasedReader

(* A settled closed promise stays as it is while the reader holds its stream *)
C23_Step ==
  \A r \in DOMAIN readers :
    (readers[r].closed.st # "pending" /\ readers'[r].stream) =>
      readers'[r].closed = readers[r].closed

(* C23: the closed promise of a reader is pending exactly while the stream is
   Readable: it is resolved when the stream becomes Closed and rejected with
   the stored error when the stream becomes Errored, a reader created on a
   Closed or Errored stream has it resolved or rejected already, and once
   settled it is not settled again. *)
C23_ClosedPromiseFollowsState == []C23_Inv /\ [][C23_Step]_vars

(* The first reader saw the stream close and was released, the second reader
   was created on the Closed stream with its closed promise resolved *)
C23_Witness ==
  /\ stream.state = "Closed"
  /\ Len(readers) = 2
  /\ ~readers[1].stream /\ readers[1].closed.st = "rejected"
  /\ readers[2].stream /\ readers[2].closed.st = "fulfilled"
  /\ \E i \in DOMAIN reads : reads[i].reader = 1 /\ reads[i].st = "fulfilled" /\ reads[i].done

(* ------------------ properties: empty and detached chunks --------------- *)
(* The views that hold no bytes: a view of length 0, and views over a buffer
   that was detached *)
C24_EmptyViews ==
  {[bytes |-> 0, detached |-> FALSE]} \cup {[bytes |-> n, detached |-> TRUE] : n \in ChunkLens}

(* C24: enqueue of a zero-length view or of a view over a detached buffer on
   a ByteStream controller fails with a TypeError and changes nothing: byte
   queue, queue_size, pending pull-into descriptors and stream state are as
   before and no read request is settled. *)
C24_EmptyChunkRefused ==
  controller.kind = "ByteStream" =>
    \A v \in C24_EmptyViews, po \in PullOutcomes :
      LET w == ByteStream_enqueue(World, 21, ArrayBufferView_len(v), po) IN
      /\ w.exc \in TypeErrors
      /\ w.controller = controller
      /\ w.stream = stream
      /\ w.reads = reads
      /\ w.readers = readers
      /\ w.ghost = ghost

(* A Readable byte stream that has work in hand when the empty chunk comes:
   one read was answered with a chunk, another is outstanding and its
   pull-into descriptor is pending *)
C24_Witness ==
  /\ controller.kind = "ByteStream"
  /\ stream.state = "Readable"
  /\ controller.pending_descriptors # <<>>
  /\ \E i \in DOMAIN reads : reads[i].st = "pending"
  /\ \E i \in DOMAIN reads : reads[i].st = "fulfilled" /\ ~reads[i].done
  /\ ghost.enq > 0

(* ------------------- properties: failing writes (transform) ------------- *)
(* Both halves are errored with the exception e *)
C25_BothErrored(e) ==
  /\ ts.readable.state = "errored" /\ ts.readable.error = e
  /\ ts.writable.state = "errored" /\ ts.writable.error = e

(* The failure of a transform algorithm, handled while both halves were
   usable, has errored both halves in the one call of error() *)
C25_TransformFailure ==
  (/\ ts.write \in {"reacted", "failed"}
   /\ ts.failure.kind = "transform"
   /\ ts.failure.readable = "readable" /\ ts.failure.writable = "writable") =>
    C25_BothErrored(ts.writeErr)

(* No half is terminal through the failure of a write while the other half
   is still usable *)
C25_NeverHalfAlive ==
  ts.write \in {"reacted", "failed"} =>
    /\ ts.readable.state # "readable"
    /\ ts.writable.state # "writable"

(* A direct enqueue is refused only when the Readable half can take no
   chunk any more; error() is not called, the Readable half stays as it was
   and the engine takes the Writable half out of the writable state *)
C25_EnqueueFailure ==
  ts.failure.kind = "enqueue" =>
    /\ ts.failure.readable # "readable"
    /\ ts.readable.state = ts.failure.readable
    /\ ts.writeErr = E_ReadableClosed
    /\ ts.write = "failed" => ts.writable.state # "writable"

(* C25, as the code has it: the failure of a transform algorithm that throws
   or returns a promise that rejects, handled while both halves are usable,
   makes the Readable half Errored and the Writable half errored with the
   same exception in the one call of error(); a direct enqueue fails only
   once the Readable half is no longer readable, without a call of error(),
   and the Writable half alone is errored; after a failed write neither half
   is usable. *)
C25_NeverHalfAliveAfterWrite ==
  /\ C25_TransformFailure
  /\ C25_NeverHalfAlive
  /\ C25_EnqueueFailure

(* C25 as stated: whenever a write fails, because the transform algorithm
   throws or returns a promise that rejects or because a direct enqueue
   fails, the Readable half becomes Errored and the Writable half errored
   with the same exception, so that no half is terminal through the failure
   while the other is usable. *)
C25_WriteFailureErrorsBoth ==
  /\ C25_TransformFailure
  /\ C25_NeverHalfAlive
  /\ (ts.write = "failed" /\ ts.failure.kind = "enqueue") => C25_BothErrored(ts.writeErr)

(* The promise a transform algorithm returned rejected while both halves
   were usable, and the write has failed: both halves are errored with the
   exception of the rejection *)
C25_Witness ==
  /\ ts.write = "failed"
  /\ ts.failure = [kind |-> "transform", readable |-> "readable", writable |-> "writable"]
  /\ ts.writeErr = "e_transform_rejected"
  /\ C25_BothErrored("e_transform_rejected")

(* ---------------------- properties: close and flush --------------------- *)
(* The number of chunks in s that the flush algorithm enqueued *)
RECURSIVE FlushChunks(_)
FlushChunks(s) ==
  IF s = <<>> THEN 0 ELSE (IF Head(s) = "f" THEN 1 ELSE 0) + FlushChunks(Tail(s))

(* close() ran the flush algorithm, when the transformer has one, and waited
   for the promise it returned before it asked the Readable half to close *)
C26_FlushBeforeClose ==
  ts.readable.close_requested =>
    /\ ts.closeFuture = "done"
    /\ ts.given.flush => ts.flushCalls = 1

(* The consumer that was not cancelled reads every chunk flush enqueued
   before it reads done *)
C26_DeliveredBeforeDone ==
  (InSeq("done", ts.delivered) /\ ts.readable.close_requested /\ ts.cancelRet = NoPromise) =>
    /\ ts.readable.queue = <<>>
    /\ FlushChunks(ts.delivered) = ts.flushed
    /\ ts.delivered[Len(ts.delivered)] = "done"

(* A flush that failed while the Readable half was readable has errored it
   with its exception, the half was not closed and the close promise is
   rejected with the exception *)
C26_FlushFailure ==
  ts.flushFailure.readable = "readable" =>
    /\ ts.readable.state = "errored"
    /\ ts.readable.error = ts.flushFailure.err
    /\ ~ts.readable.close_requested
    /\ ~InSeq("done", ts.delivered)
    /\ ts.promises[ts.closeRet] = Rejected(ts.flushFailure.err)

(* C26: close() on the sink runs the flush algorithm, when present, to
   completion, the promise it returns included, before the Readable half is
   closed, so that the chunks flush enqueues are delivered before done; when
   flush throws or its promise rejects the Readable half is errored with that
   exception, never closed, and the close promise rejects with it. *)
C26_CloseRunsFlushFirst ==
  /\ C26_FlushBeforeClose
  /\ C26_DeliveredBeforeDone
  /\ C26_FlushFailure

(* close() ran a flush algorithm that enqueued a chunk and returned a promise
   that was fulfilled: the consumer has read the chunk and then done *)
C26_Witness ==
  /\ ts.given.flush /\ ts.flushCalls = 1 /\ ts.flushed >= 1
  /\ ts.cancelRet = NoPromise
  /\ ts.readable.state = "closed" /\ ts.readable.close_requested
  /\ Len(ts.delivered) >= 2
  /\ ts.delivered[Len(ts.delivered)] = "done"
  /\ ts.delivered[Len(ts.delivered) - 1] = "f"
  /\ ts.promises[ts.closeRet] = Fulfilled


(* ------------------------ state machine: event loop -------------------- *)
(* The jobs, timers, futures and promises script may make in a run *)
MaxMade == 3

Promises == 1..MaxMade

(* The values promises are rejected with: an Error object, a plain object
   whose keys Object::has finds, and a plain object with a key that has a NUL
   character in it, which the C string given to JS_HasProperty cuts short *)
NoReason == [class |-> "Undefined", keys |-> {}]
V_Error == [class |-> "Error", keys |-> {}]
V_Plain == [class |-> "Object", keys |-> {[name |-> "a", cut |-> FALSE]}]
V_Keyed == [class |-> "Object", keys |-> {[name |-> "a.b", cut |-> TRUE]}]

Reasons == {V_Plain, V_Keyed}

Object_has(v, key) == key \in v.keys /\ ~key.cut

Object_get(v, key) == IF Object_has(v, key) THEN "Some" ELSE "None"

(* format_plain_object unwraps what Object::get returns for every key *)
format_plain_object(v) ==
  IF \E key \in v.keys : Object_get(v, key) = "None" THEN PANIC ELSE "text"

format_value(v) ==
  IF v.class = "Object" THEN format_plain_object(v) ELSE "text"

(* EventLoop::default, with the three queues the runtime installs; the
   promises are the engine's, each pending and without a handler. The
   fields pass, worked, repeated, outcome, reported and made record what
   happened and are read by no operation *)
EventLoop_new ==
  [futures |-> <<>>,
   microtasks |-> 0,
   macrotasks |-> [due |-> 0, waiting |-> 0],
   unhandled_rejections |-> <<>>,
   promises |-> [p \in Promises |-> "pending"],
   reasons |-> [p \in Promises |-> NoReason],
   pc |-> "idle",
   poll_result |-> FALSE,
   pass |-> <<>>,
   worked |-> <<>>,
   repeated |-> FALSE,
   outcome |-> "none",
   reported |-> [p \in Promises |-> 0],
   made |-> 0]

(* VecDeque::swap_remove_back: the element at idx is replaced by the last
   one, and the queue is one shorter *)
swap_remove_back(q, idx) ==
  [i \in 1..(Len(q) - 1) |-> IF i = idx THEN q[Len(q)] ELSE q[i]]

Least(S) == CHOOSE x \in S : \A y \in S : x <= y

position(q, p) ==
  IF \E i \in DOMAIN q : q[i] = p
  THEN Least({i \in DOMAIN q : q[i] = p}) ELSE 0

promise_rejection_tracker_callback(e, p, state) ==
  IF state = "Unhandled"
  THEN [e EXCEPT !.unhandled_rejections = Append(@, p)]
  ELSE LET idx == position(e.unhandled_rejections, p)
       IN IF idx # 0
          THEN [e EXCEPT !.unhandled_rejections = swap_remove_back(@, idx)]
          ELSE e

(* The engine rejects promise p: a promise without a handler is announced
   to the tracker as Unhandled, a promise with one runs its reaction as a
   microtask *)
Promise_reject(e, p, r) ==
  IF e.promises[p] = "pending"
  THEN promise_rejection_tracker_callback(
         [e EXCEPT !.promises[p] = "unhandled", !.reasons[p] = r],
         p, "Unhandled")
  ELSE IF e.promises[p] = "guarded"
  THEN [e EXCEPT !.promises[p] = "settled", !.microtasks = @ + 1]
  ELSE e

Promise_resolve(e, p) ==
  IF e.promises[p] = "pending" THEN [e EXCEPT !.promises[p] = "settled"]
  ELSE IF e.promises[p] = "guarded"
  THEN [e EXCEPT !.promises[p] = "settled", !.microtasks = @ + 1]
  ELSE e

(* A handler is attached to promise p: a rejected promise that had none is
   announced to the tracker as Handled, and its reaction is a microtask *)
Promise_then(e, p) ==
  IF e.promises[p] = "pending" THEN [e EXCEPT !.promises[p] = "guarded"]
  ELSE IF e.promises[p] = "unhandled"
  THEN promise_rejection_tracker_callback(
         [e EXCEPT !.promises[p] = "handled", !.microtasks = @ + 1],
         p, "Handled")
  ELSE e

Owned(e, p) == \E i \in DOMAIN e.futures : e.futures[i].promise = p

(* A promise script has made: one that was settled, given a handler or
   handed to a future *)
Touched(e, p) == e.promises[p] # "pending" \/ Owned(e, p)

(* What a piece of script, a job or a callback may do to the event loop *)
JsEffects ==
  [op : {"none", "microtask", "macrotask", "timer", "throw"}, p : {0}, r : {NoReason}]
    \cup [op : {"future", "then"}, p : Promises, r : {NoReason}]
    \cup [op : {"reject"}, p : Promises, r : Reasons]

Enqueues(eff) == IF eff.op \in {"microtask", "macrotask", "timer", "future"} THEN 1 ELSE 0

Makes(e, eff) ==
  Enqueues(eff) + (IF eff.p \in Promises /\ ~Touched(e, eff.p) THEN 1 ELSE 0)

NoEffect == [op |-> "none", p |-> 0, r |-> NoReason]

Js_do(e, eff) ==
  IF eff.op = "microtask"
  THEN [e EXCEPT !.microtasks = @ + 1]
  ELSE IF eff.op = "macrotask"
  THEN [e EXCEPT !.macrotasks.due = @ + 1]
  ELSE IF eff.op = "timer"
  THEN [e EXCEPT !.macrotasks.waiting = @ + 1]
  ELSE IF eff.op = "future"
  THEN IF e.promises[eff.p] \in {"pending", "guarded"} /\ ~Owned(e, eff.p)
       THEN [e EXCEPT !.futures = Append(@, [st |-> "pending", promise |-> eff.p])]
       ELSE e
  ELSE IF eff.op = "reject"
  THEN IF Owned(e, eff.p) THEN e ELSE Promise_reject(e, eff.p, eff.r)
  ELSE IF eff.op = "then"
  THEN Promise_then(e, eff.p)
  ELSE e

Js(e, eff) == [Js_do(e, eff) EXCEPT !.made = @ + Makes(e, eff)]

(* The outcome of a phase: the event loop after it, whether it did work,
   and whether it failed *)
Phase(e, did_work, err) == [e |-> e, did_work |-> did_work, err |-> err]

RECURSIVE settle_results(_, _)
settle_results(e, results) ==
  IF results = <<>> THEN e
  ELSE LET r == Head(results)
       IN settle_results(
            IF r.st = "ok" THEN Promise_resolve(e, r.promise)
            ELSE Promise_reject(e, r.promise, V_Error),
            Tail(results))

(* FutureQueue::poll_futures: the finished futures leave the queue in the
   order they finished; a future that was cancelled or panicked fails the
   phase at once, the others settle their promises *)
poll_futures(e) ==
  LET ready == SelectSeq(e.futures, LAMBDA f : f.st # "pending")
      bad == {i \in DOMAIN ready : ready[i].st = "cancelled"}
      rest == SelectSeq(e.futures, LAMBDA f : f.st = "pending")
  IN IF bad # {}
     THEN LET k == Least(bad)
          IN Phase([e EXCEPT !.futures = rest \o SubSeq(ready, k + 1, Len(ready))],
                   FALSE, TRUE)
     ELSE Phase(settle_results([e EXCEPT !.futures = rest], ready),
                ready # <<>>, FALSE)

(* MicrotaskQueue::run_jobs as step_inner uses it: the queued jobs run
   one after the other, those they enqueue included; a job that throws
   fails the phase. The first job does eff, the others nothing *)
RECURSIVE run_jobs(_, _, _)
run_jobs(e, eff, ran) ==
  IF e.microtasks = 0 THEN Phase(e, ran, FALSE)
  ELSE LET e1 == [e EXCEPT !.microtasks = @ - 1]
       IN IF eff.op = "throw" THEN Phase(e1, TRUE, TRUE)
          ELSE run_jobs(Js(e1, eff), NoEffect, TRUE)

(* MacrotaskQueue::poll_jobs: every macrotask that is due runs and is
   removed, those enqueued meanwhile included; a callback that throws fails
   the phase and its macrotask stays in the map. The first callback does
   eff, the others nothing *)
RECURSIVE poll_jobs(_, _, _)
poll_jobs(e, eff, ran) ==
  IF e.macrotasks.due = 0 THEN Phase(e, ran, FALSE)
  ELSE IF eff.op = "throw" THEN Phase(e, TRUE, TRUE)
  ELSE poll_jobs([Js(e, eff) EXCEPT !.macrotasks.due = @ - 1], NoEffect, TRUE)

EventLoop_is_empty(e) ==
  /\ e.microtasks = 0
  /\ e.futures = <<>>
  /\ e.macrotasks.due = 0 /\ e.macrotasks.waiting = 0

(* EventLoop::step when step_inner failed, and RunToEnd::poll after it:
   the waker is woken and the error is the output *)
step_err(e) ==
  [e EXCEPT !.pc = "idle", !.outcome = "err"]

(* One phase of step_inner: skipped when its queue is empty, else its result
   is compounded into poll_result and its error ends the step *)
step_phase(e, name, next, nonempty, r) ==
  IF ~nonempty THEN [e EXCEPT !.pc = next]
  ELSE LET e1 == [r.e EXCEPT !.pass = Append(@, name),
                             !.worked = IF r.did_work THEN Append(@, name) ELSE @,
                             !.poll_result = @ \/ r.did_work]
       IN IF r.err THEN step_err(e1) ELSE [e1 EXCEPT !.pc = next]

(* RunToEnd::poll calls step, which calls step_inner *)
step_inner_enter(e) ==
  [e EXCEPT !.pc = "futures", !.poll_result = FALSE, !.pass = <<>>,
            !.worked = <<>>, !.repeated = FALSE, !.outcome = "none"]

step_inner_futures(e) ==
  step_phase(e, "futures", "microtasks", e.futures # <<>>, poll_futures(e))

step_inner_microtasks(e, eff) ==
  step_phase(e, "microtasks", "macrotasks", e.microtasks # 0,
             run_jobs(e, eff, FALSE))

step_inner_macrotasks(e, eff) ==
  step_phase(e, "macrotasks", "rejections",
             e.macrotasks.due + e.macrotasks.waiting # 0,
             poll_jobs(e, eff, FALSE))

(* The loop over unhandled_rejections: every promise is taken from the front
   and its result is formatted and printed; a panic of format_value ends
   the process *)
RECURSIVE report_rejections(_)
report_rejections(e) ==
  IF e.unhandled_rejections = <<>> THEN e
  ELSE LET p == Head(e.unhandled_rejections)
           e1 == [e EXCEPT !.unhandled_rejections = Tail(@)]
       IN IF format_value(e.reasons[p]) = PANIC
          THEN [e1 EXCEPT !.pc = "panicked", !.outcome = PANIC]
          ELSE report_rejections([e1 EXCEPT !.reported[p] = @ + 1])

step_inner_rejections(e) ==
  LET e1 == [report_rejections(e) EXCEPT !.pass = Append(@, "rejections")]
  IN IF e1.pc = "panicked" THEN e1 ELSE [e1 EXCEPT !.pc = "again"]

step_inner_again_never(e) ==
  [e EXCEPT !.pc = "idle",
            !.outcome = IF EventLoop_is_empty(e) THEN "ok" ELSE "pending"]

(* The end of a pass: another pass when poll_result says work was done, else
   step returns Ok and RunToEnd::poll looks at is_empty *)
step_inner_again(e) ==
  IF e.poll_result
  THEN [e EXCEPT !.pc = "futures", !.poll_result = FALSE, !.repeated = TRUE,
                 !.pass = <<>>, !.worked = <<>>]
  ELSE [e EXCEPT !.pc = "idle",
                 !.outcome = IF EventLoop_is_empty(e) THEN "ok" ELSE "pending"]

InitEL ==
  /\ StreamsIdle
  /\ ts = TransformStream_new(NoTransformer)
  /\ cx = EventLoop_new

(* Script makes no more than MaxMade things, and its promises in turn *)
MayEnqueue(eff) ==
  /\ cx.made + Makes(cx, eff) <= MaxMade
  /\ eff.p \in Promises => \A q \in 1..(eff.p - 1) : Touched(cx, q)

(* Script that runs while the event loop is not being polled *)
ELScript ==
  /\ cx.pc = "idle"
  /\ \E eff \in JsEffects :
       /\ eff.op \notin {"none", "throw"} /\ MayEnqueue(eff)
       /\ CommitCx(Js(cx, eff))

ELPoll ==
  /\ cx.pc = "idle"
  /\ CommitCx(step_inner_enter(cx))

ELFutures ==
  /\ cx.pc = "futures"
  /\ CommitCx(step_inner_futures(cx))

ELMicrotasks ==
  /\ cx.pc = "microtasks"
  /\ \E eff \in JsEffects :
       /\ MayEnqueue(eff)
       /\ CommitCx(step_inner_microtasks(cx, eff))

ELMacrotasks ==
  /\ cx.pc = "macrotasks"
  /\ \E eff \in JsEffects :
       /\ MayEnqueue(eff)
       /\ CommitCx(step_inner_macrotasks(cx, eff))

ELRejections ==
  /\ cx.pc = "rejections"
  /\ CommitCx(step_inner_rejections(cx))

ELAgain ==
  /\ cx.pc = "again"
  /\ CommitCx(step_inner_again(cx))

(* A spawned future finishes on its own thread *)
ELFutureDone ==
  \E i \in DOMAIN cx.futures, st \in {"ok", "err", "cancelled"} :
    /\ cx.futures[i].st = "pending"
    /\ CommitCx([cx EXCEPT !.futures[i].st = st])

(* The time of a timer comes *)
ELTimerDue ==
  /\ cx.macrotasks.waiting > 0
  /\ CommitCx([cx EXCEPT !.macrotasks.waiting = @ - 1, !.macrotasks.due = @ + 1])

NextEL ==
  \/ ELScript \/ ELPoll \/ ELFutures \/ ELMicrotasks \/ ELMacrotasks
  \/ ELRejections \/ ELAgain \/ ELFutureDone \/ ELTimerDue

SpecEL == InitEL /\ [][NextEL]_vars


(* ------------------------ properties: event loop ----------------------- *)
PhaseRank(name) ==
  IF name = "futures" THEN 1
  ELSE IF name = "microtasks" THEN 2
  ELSE IF name = "macrotasks" THEN 3 ELSE 4

Last(s) == s[Len(s)]

C27_InOrder ==
  \A i, j \in DOMAIN cx.pass :
    i < j => PhaseRank(cx.pass[i]) < PhaseRank(cx.pass[j])

C27_Inv ==
  /\ C27_InOrder
  /\ Range(cx.worked) \subseteq Range(cx.pass)
  /\ cx.pc = "again" => cx.pass # <<>> /\ Last(cx.pass) = "rejections"
  /\ (cx.pc = "idle" /\ cx.outcome \in {"ok", "pending"}) =>
       /\ cx.worked = <<>>
       /\ cx.pass # <<>> /\ Last(cx.pass) = "rejections"

(* A phase whose queue is not empty when its turn comes runs, or ends the
   step with its error *)
C27_PhaseRuns(name, nonempty) ==
  (cx.pc = name /\ cx'.pc # name /\ nonempty) =>
    /\ Last(cx'.pass) = name
    /\ cx'.pc = "idle" => cx'.outcome = "err"

C27_Step ==
  /\ C27_PhaseRuns("futures", cx.futures # <<>>)
  /\ C27_PhaseRuns("microtasks", cx.microtasks # 0)
  /\ C27_PhaseRuns("macrotasks", cx.macrotasks.due + cx.macrotasks.waiting # 0)
  /\ (cx.pc = "rejections" /\ cx'.pc # "rejections") =>
       cx'.pc \in {"again", "panicked"} /\ Last(cx'.pass) = "rejections"
  /\ (cx.pc = "again" /\ cx'.pc # "again") =>
       IF cx.worked # <<>>
       THEN cx'.pc = "futures" /\ cx'.pass = <<>> /\ cx'.repeated
       ELSE cx'.pc = "idle" /\ cx'.outcome \in {"ok", "pending"}
  /\ (cx.pc # "idle" /\ cx'.pc = "idle") =>
       \/ cx'.outcome = "err"
       \/ cx.pc = "again" /\ cx.worked = <<>>
  /\ (cx.outcome # "ok" /\ cx'.outcome = "ok") =>
       /\ cx'.futures = <<>> /\ cx'.microtasks = 0
       /\ cx'.macrotasks.due = 0 /\ cx'.macrotasks.waiting = 0

(* C27: in every pass of the event loop the phases run in the order futures,
   microtasks, macrotasks, unhandled-rejection reporting; a pass in which a
   phase did work is followed by another pass, a step that returns without
   an error returns only after a pass in which no phase did work, and the
   run-to-end future completes with success only when the future, microtask
   and macrotask queues are all empty *)
C27_PassesInOrderUntilIdle == []C27_Inv /\ [][C27_Step]_vars

C27_Witness ==
  /\ cx.pc = "idle" /\ cx.outcome = "ok" /\ cx.repeated
  /\ cx.pass = <<"rejections">> /\ cx.made = MaxMade


C28_Queued(p) == p \in Range(cx.unhandled_rejections)

C28_Inv ==
  /\ \A p \in Promises :
       /\ cx.reported[p] <= 1
       /\ C28_Queued(p) <=> (cx.promises[p] = "unhandled" /\ cx.reported[p] = 0)
       /\ cx.reported[p] = 1 => cx.promises[p] \in {"unhandled", "handled"}
  /\ \A i, j \in DOMAIN cx.unhandled_rejections :
       cx.unhandled_rejections[i] = cx.unhandled_rejections[j] => i = j

C28_Step ==
  /\ (cx.pc = "rejections" /\ cx'.pc # "rejections") =>
       /\ \A p \in Promises :
            cx'.reported[p] = cx.reported[p] + (IF C28_Queued(p) THEN 1 ELSE 0)
       /\ cx'.unhandled_rejections = <<>>
       /\ cx'.pc = "again" /\ cx'.outcome = cx.outcome
  /\ \A p \in Promises :
       /\ cx'.reported[p] # cx.reported[p] =>
            cx.pc = "rejections" /\ cx.promises[p] = "unhandled"
       /\ (cx.promises[p] = "handled" /\ cx.reported[p] = 0) =>
            (cx'.promises[p] = "handled" /\ cx'.reported[p] = 0)

(* C28: a promise rejection that is still unhandled when the
   unhandled-rejection phase of the event loop runs is reported once by that
   phase and then forgotten; a rejection that got a handler before the phase
   ran is never reported; and reporting never fails the step and never ends
   the process *)
C28_UnhandledReportedOnce == []C28_Inv /\ [][C28_Step]_vars

(* C28, the part that holds: as long as formatting a rejection does not
   panic, every queued rejection is reported once and forgotten, and a
   rejection handled before its report is never reported *)
C28_ReportedOnceUnlessPanic ==
  [](cx.pc # "panicked" => C28_Inv) /\ [][cx'.pc # "panicked" => C28_Step]_vars

(* C28, the state in which the report of a rejection ended the process *)
C28_ReportPanicked == cx.pc = "panicked" /\ cx.outcome = PANIC

(* C28, a run in which one rejection was reported and another was handled
   before its report *)
C28_Witness ==
  /\ cx.pc = "again"
  /\ cx.reported[1] = 1 /\ cx.promises[1] = "unhandled"
  /\ cx.reported[2] = 0 /\ cx.promises[2] = "handled"


(* ------------------------ state machine: traced heaps ------------------ *)
MaxBoxes == 3

Addrs == 1..MaxBoxes
Things == {"g1", "g2", "g3"}
Free == "free"

(* No TracedHeap yet: every address of the allocator is free and the traced
   set of the thread is empty *)
Traced_new ==
  [boxes |-> [a \in Addrs |-> Free], set |-> <<>>, op |-> "none"]

LiveBoxes(x) == {a \in Addrs : x.boxes[a] # Free}

(* RootedTraceableSet::add as TracedHeap calls it: the address of the box is
   pushed *)
RootedTraceableSet_add(set, a) == Append(set, a)

(* RootedTraceableSet::remove as TracedHeap calls it: the last entry with the
   address of the box is taken out *)
RootedTraceableSet_remove(set, a) ==
  IF \E i \in DOMAIN set : set[i] = a
  THEN LET idx == CHOOSE i \in DOMAIN set :
                    set[i] = a /\ \A j \in DOMAIN set : set[j] = a => j <= i
       IN SubSeq(set, 1, idx - 1) \o SubSeq(set, idx + 1, Len(set))
  ELSE set

(* TracedHeap::new: JSHeap::boxed allocates the box at a free address a *)
TracedHeap_new(x, a, ptr) ==
  [x EXCEPT !.boxes[a] = ptr,
            !.set = RootedTraceableSet_add(@, a),
            !.op = "new"]

TracedHeap_from_local(x, a, local) ==
  [TracedHeap_new(x, a, local) EXCEPT !.op = "from_local"]

TracedHeap_clone(x, a, b) ==
  [TracedHeap_new(x, a, x.boxes[b]) EXCEPT !.op = "clone"]

TracedHeap_set_adds_again(x, a, v) ==
  [x EXCEPT !.boxes[a] = v,
            !.set = RootedTraceableSet_add(@, a),
            !.op = "set"]

TracedHeap_set(x, a, v) ==
  [x EXCEPT !.boxes[a] = v,
            !.set = RootedTraceableSet_add(RootedTraceableSet_remove(@, a), a),
            !.op = "set"]

TracedHeap_drop(x, a) ==
  [x EXCEPT !.boxes[a] = Free,
            !.set = RootedTraceableSet_remove(@, a),
            !.op = "drop"]

InitTH ==
  /\ StreamsIdle
  /\ ts = TransformStream_new(NoTransformer)
  /\ cx = Traced_new

THNew ==
  \E a \in Addrs \ LiveBoxes(cx), ptr \in Things :
    CommitCx(TracedHeap_new(cx, a, ptr))

THFromLocal ==
  \E a \in Addrs \ LiveBoxes(cx), local \in Things :
    CommitCx(TracedHeap_from_local(cx, a, local))

THClone ==
  \E a \in Addrs \ LiveBoxes(cx), b \in LiveBoxes(cx) :
    CommitCx(TracedHeap_clone(cx, a, b))

THSet ==
  \E a \in LiveBoxes(cx), v \in Things :
    CommitCx(TracedHeap_set(cx, a, v))

THDrop ==
  \E a \in LiveBoxes(cx) : CommitCx(TracedHeap_drop(cx, a))

NextTH == THNew \/ THFromLocal \/ THClone \/ THSet \/ THDrop

SpecTH == InitTH /\ [][NextTH]_vars

(* ------------------------ properties: traced heaps --------------------- *)
Entries(set, a) == Cardinality({i \in DOMAIN set : set[i] = a})

(* C29: the traced set holds exactly one entry for every live TracedHeap box
   and none for a dropped one, after new, from_local, clone, set and drop *)
C29_OneEntryPerLiveBox ==
  \A a \in Addrs :
    Entries(cx.set, a) = IF cx.boxes[a] # Free THEN 1 ELSE 0

C29_Witness ==
  /\ cx.op = "set"
  /\ Cardinality(LiveBoxes(cx)) = 2
  /\ Len(cx.set) = 2
  /\ \E a \in Addrs : cx.boxes[a] = Free


(* ------------------------ properties: disturbed ------------------------ *)
C30_AttachedDefault(r) == readers[r].kind = "Default" /\ readers[r].stream

C30_Inv ==
  \A r \in DOMAIN readers, po \in PullOutcomes :
    C30_AttachedDefault(r) =>
      DefaultReader_read(World, r, po).stream.disturbed

C30_Step == stream.disturbed => stream'.disturbed

(* C30: a read() on a default reader that is attached to a stream leaves the
   stream disturbed in every state of the stream, whether or not a chunk is
   delivered, and a disturbed stream stays disturbed *)
C30_ReadDisturbsForGood == []C30_Inv /\ [][C30_Step]_vars

C30_Witness ==
  /\ stream.state = "Closed" /\ stream.disturbed
  /\ Len(reads) = 1 /\ reads[1].done /\ reads[1].st = "fulfilled"
  /\ C30_AttachedDefault(reads[1].reader)
  /\ ghost.cancelCalls = 0


(* ------------------------ state machine: object wrappers --------------- *)
(* The keys of the tests: names of an Object, indices of an Array *)
ObjectKeys == {"key1", "key2", "key3"}
ArrayKeys == {"0", "1", "2"}

KeysOf(class) == IF class = "Array" THEN ArrayKeys ELSE ObjectKeys

Key(name) == [name |-> name, cut |-> FALSE]

(* PropertyFlags::all() has JSPROP_PERMANENT in it, PropertyFlags::empty()
   has not *)
PropertyFlagSets == {"all", "empty"}

(* Object::new / Array::new: no property of the tests' keys; permanent holds
   the keys of the properties that are not configurable *)
Object_new(class) ==
  [class |-> class, keys |-> {}, permanent |-> {},
   last |-> [op |-> "new", key |-> "", ok |-> TRUE, code |-> 0]]

Done(o, op, name, ok, code) ==
  [o EXCEPT !.last = [op |-> op, key |-> name, ok |-> ok, code |-> code]]

(* Object::set / Array::set: JS_SetProperty makes a configurable property
   when the object has none with that key *)
Object_set(o, name) ==
  Done([o EXCEPT !.keys = @ \cup {Key(name)}], "set", name, TRUE, 0)

(* Object::define / Array::define: JS_DefineProperty makes the property with
   the attributes given; a property that is not configurable cannot be
   defined again with other attributes *)
Object_define(o, name, attrs) ==
  IF Key(name) \in o.permanent
  THEN Done(o, "define", name, attrs = "all", 0)
  ELSE Done([o EXCEPT !.keys = @ \cup {Key(name)},
                      !.permanent = IF attrs = "all" THEN @ \cup {Key(name)} ELSE @],
            "define", name, TRUE, 0)

Object_delete_any(o, name) ==
  Done([o EXCEPT !.keys = @ \ {Key(name)}, !.permanent = @ \ {Key(name)}],
       "delete", name, TRUE, 0)

(* Object::delete / Array::delete: JS_DeleteProperty with an ObjectOpResult
   returns true also when the property is not configurable; it then leaves
   the property and puts the failure in the result code *)
Object_delete(o, name) ==
  IF Key(name) \in o.permanent
  THEN Done(o, "delete", name, TRUE, 1)
  ELSE Done([o EXCEPT !.keys = @ \ {Key(name)}], "delete", name, TRUE, 0)

InitOb ==
  /\ StreamsIdle
  /\ ts = TransformStream_new(NoTransformer)
  /\ \E class \in {"Object", "Array"} : cx = Object_new(class)

ObSet ==
  \E name \in KeysOf(cx.class) :
    /\ Key(name) \notin cx.permanent
    /\ CommitCx(Object_set(cx, name))

ObDefine ==
  \E name \in KeysOf(cx.class), attrs \in PropertyFlagSets :
    CommitCx(Object_define(cx, name, attrs))

ObDelete ==
  \E name \in KeysOf(cx.class) : CommitCx(Object_delete(cx, name))

NextOb == ObSet \/ ObDefine \/ ObDelete

SpecOb == InitOb /\ [][NextOb]_vars

(* ------------------------ properties: object wrappers ------------------ *)
C31_Absent(name) == Object_get(cx, Key(name)) = "None"

C31_SetThenDelete(name) ==
  LET d == Object_delete(Object_set(cx, name), name)
  IN d.last.ok /\ Object_get(d, Key(name)) = "None"

C31_DefineThenDelete(name) ==
  LET o == Object_define(cx, name, "all")
      d == Object_delete(o, name)
  IN /\ Object_get(o, Key(name)) = "Some"
     /\ d.last.ok /\ Object_get(d, Key(name)) = "Some"

(* C31: for an Object and an Array, a property made by set() is gone after
   delete(), a property made by define() with all flags is still there after
   delete(), and delete() returns true first in both cases *)
C31_DeleteKeepsPermanent ==
  \A name \in KeysOf(cx.class) :
    C31_Absent(name) => C31_SetThenDelete(name) /\ C31_DefineThenDelete(name)

(* The end of the tests: key1 was set and deleted, key2 defined with all flags
   and deleted *)
C31_Witness ==
  \E k1, k2 \in KeysOf(cx.class) :
    /\ k1 # k2
    /\ cx.last = [op |-> "delete", key |-> k2, ok |-> TRUE, code |-> 1]
    /\ Object_get(cx, Key(k1)) = "None"
    /\ Object_get(cx, Key(k2)) = "Some"


(* ------------------------ properties: queue size ----------------------- *)
RECURSIVE SumSizes(_)
SumSizes(q) == IF q = <<>> THEN 0 ELSE Head(q)[2] + SumSizes(Tail(q))

(* C32: for a Default controller queue_size is the sum of the sizes of the
   chunks in the queue, so desiredSize is highWaterMark minus the size of
   what is queued *)
C32_QueueSizeIsSumOfQueue ==
  controller.kind = "Default" =>
    /\ controller.queue_size = SumSizes(controller.queue)
    /\ stream.state = "Readable" =>
         Default_get_desired_size(World) =
           controller.high_water_mark - SumSizes(controller.queue)

(* C32, what holds: queue_size is never less than the sum of the sizes in the
   queue, and is that sum until a read takes a chunk from the queue *)
C32_QueueSizeNotBelowSum ==
  controller.kind = "Default" =>
    controller.queue_size >= SumSizes(controller.queue)

(* C32, the state after a queued chunk was read: the queue is empty and
   queue_size still counts the chunk *)
C32_ReadLeftSize ==
  /\ controller.kind = "Default" /\ stream.state = "Readable"
  /\ controller.queue = <<>> /\ controller.queue_size > 0
  /\ \E i \in DOMAIN reads : reads[i].st = "fulfilled" /\ ~reads[i].done

(* ------------------------ properties: pull is called ------------------- *)
(* A read request of the attached reader is outstanding *)
C33_ReadOutstanding ==
  /\ stream.reader_kind # "None"
  /\ Len(readers[stream.reader_object].requests) > 0

(* C33: on a Readable stream with a pull algorithm the pulling flag is set
   only while a promise returned by a call of pull is unsettled, so that a
   stream with an outstanding read and no pull promise in flight can have
   pull called; this also after a pull that returned a value that is no
   promise, or threw *)
C33_PullingOnlyWhilePullUnsettled ==
  (Live /\ stream.state = "Readable" /\ controller.pull /\ controller.pulling)
    => source.pulls # {}

(* C33, the state the code reaches: a read is outstanding on a started
   stream, pull was called and no promise of it is in flight, and the
   pulling flag, which nothing clears any more, keeps pull from being
   called *)
C33_PullBlockedForGood ==
  /\ Live /\ stream.state = "Readable" /\ controller.pull /\ controller.started
  /\ C33_ReadOutstanding
  /\ controller.pulling /\ source.pulls = {} /\ ghost.pullCalls > 0

(* ------------------ properties: descriptors and requests --------------- *)
(* A BYOB reader is attached to a Readable stream with a ByteStream
   controller *)
C34_ByobAttached ==
  /\ controller.kind = "ByteStream" /\ stream.state = "Readable"
  /\ stream.reader_kind = "Byob"

(* C34: while a BYOB reader is attached to a Readable ByteStream-controller
   stream there are as many pending descriptors as that reader has
   outstanding read requests, so a descriptor that is committed finds a
   request to settle; this also after a releaseLock with reads pending and a
   new getReader *)
C34_DescriptorsMatchRequests ==
  (Live /\ C34_ByobAttached) =>
    Len(controller.pending_descriptors) =
      Len(readers[stream.reader_object].requests)

(* C34, the state the code reaches: a second BYOB reader, which has made no
   read, is attached while the controller still holds a descriptor of the
   reader that released its lock *)
C34_DescriptorOfReleasedReader ==
  /\ Live /\ C34_ByobAttached
  /\ stream.reader_object > 1
  /\ readers[stream.reader_object].requests = <<>>
  /\ controller.pending_descriptors # <<>>

(* ----------------------- properties: reader cancel --------------------- *)
(* The reader r is attached to the stream while it is Readable *)
C35_Attached(r) ==
  /\ Live /\ stream.state = "Readable"
  /\ readers[r].stream /\ stream.reader_object = r

(* C35: cancel called on a reader that is attached to a Readable stream
   cancels the stream although the reader locks it: the stream becomes Closed,
   the cancel algorithm of the source, if there is one, is called once, and
   the call returns a promise instead of raising an exception *)
C35_ReaderCancelCancelsStream ==
  \A r \in DOMAIN readers, co \in CancelOutcomes :
    C35_Attached(r) =>
      LET w == Reader_cancel(World, r, co) IN
        /\ w.stream.state = "Closed"
        /\ w.ghost.cancelCalls = ghost.cancelCalls + (IF controller.cancel THEN 1 ELSE 0)
        /\ (co = "value" => w.exc = NoExc)

(* C35, what the code does: the cancel of an attached reader raises the
   TypeError of a locked stream and changes nothing *)
C35_ReaderCancelIsRefused ==
  \A r \in DOMAIN readers, co \in CancelOutcomes :
    C35_Attached(r) =>
      Reader_cancel(World, r, co) = Throw(World, E_StreamLocked)

(* C35, a state in which the cancel of an attached reader is refused: the
   source has a cancel algorithm and a read of the reader is pending *)
C35_Witness ==
  \E r \in DOMAIN readers :
    /\ C35_Attached(r) /\ controller.cancel
    /\ readers[r].requests # <<>>
    /\ Reader_cancel(World, r, "value").exc = E_StreamLocked

(* ------------------- properties: the cancel algorithm ------------------ *)
(* The cancel algorithm was called at most once, and a cancel of a locked
   stream is refused with the world as it is *)
C36_Inv ==
  /\ ghost.cancelCalls <= 1
  /\ get_locked(World) =>
       \A co \in CancelOutcomes :
         ReadableStream_cancel(World, co) = Throw(World, E_StreamLocked)

(* A step that calls the cancel algorithm starts from an unlocked Readable
   stream whose controller holds the algorithm, and leaves the stream not
   Readable and the controller without the algorithm *)
C36_Step ==
  ghost'.cancelCalls # ghost.cancelCalls =>
    /\ ghost'.cancelCalls = ghost.cancelCalls + 1
    /\ stream.state = "Readable" /\ ~get_locked(World) /\ controller.cancel
    /\ stream'.state = "Closed" /\ ~controller'.cancel

(* C36: over any sequence of stream cancel, reader cancel, controller close
   and controller error calls the cancel algorithm of the source is called at
   most once, and never once the stream is Closed or Errored; a cancel that is
   refused because the stream is locked calls nothing and leaves the state,
   the queue and the algorithm references as they were *)
C36_CancelAlgorithmAtMostOnce == []C36_Inv /\ [][C36_Step]_vars

(* C36, the cancel algorithm was called and the stream, Closed, was locked
   afterwards, so that a further cancel is refused *)
C36_Witness ==
  /\ Live /\ ghost.cancelCalls = 1 /\ stream.state = "Closed"
  /\ get_locked(World)

(* ----------------- event loop with futures only (SpecFut) -------------- *)
(* Futures script may spawn *)
MaxFutures == 2

(* future_to_promise with FutureQueue::enqueue: a new promise, and the
   spawned future, which owns it, at the back of the queue of the event loop *)
FutureQueue_enqueue(e) ==
  LET p == e.made + 1
  IN [Js_do(e, [op |-> "future", p |-> p, r |-> NoReason]) EXCEPT !.made = p]

FutSpawn ==
  /\ cx.pc = "idle" /\ cx.made < MaxFutures
  /\ CommitCx(FutureQueue_enqueue(cx))

(* Script attaches a handler to a promise future_to_promise returned *)
FutThen ==
  /\ cx.pc = "idle"
  /\ \E p \in 1..cx.made : CommitCx(Promise_then(cx, p))

(* The reactions of the promises are jobs that enqueue nothing *)
FutMicrotasks ==
  /\ cx.pc = "microtasks"
  /\ CommitCx(step_inner_microtasks(cx, NoEffect))

FutMacrotasks ==
  /\ cx.pc = "macrotasks"
  /\ CommitCx(step_inner_macrotasks(cx, NoEffect))

NextFut ==
  \/ FutSpawn \/ FutThen \/ ELPoll \/ ELFutures \/ FutMicrotasks \/ FutMacrotasks
  \/ ELRejections \/ ELAgain \/ ELFutureDone

SpecFut == InitEL /\ [][NextFut]_vars

(* ------------------ properties: futures and their promises ------------- *)
(* The future that owns promise p has run to completion with a value or an
   error and waits in the queue *)
C37_Completed(e, p) ==
  \E i \in DOMAIN e.futures :
    e.futures[i].promise = p /\ e.futures[i].st \in {"ok", "err"}

C37_Unsettled(e, p) == e.promises[p] \in {"pending", "guarded"}

(* A completed future leaves the queue only in the futures phase and with its
   promise, unsettled until then, settled by that step *)
C37_Step ==
  \A p \in Promises :
    (C37_Completed(cx, p) /\ ~Owned(cx', p)) =>
      /\ cx.pc = "futures"
      /\ C37_Unsettled(cx, p) /\ ~C37_Unsettled(cx', p)

(* C37: every future enqueued through future_to_promise that ran to
   completion has its promise settled, once, by the futures phase that takes
   it from the queue, also when another future taken in the same pass was
   cancelled or panicked *)
C37_CompletedFutureSettles == [][C37_Step]_vars

(* C37, what holds: the promise is settled by the futures phase that takes
   the future from the queue unless that phase fails *)
C37_SettlesUnlessPhaseFails ==
  [][cx'.outcome # "err" => C37_Step]_vars

(* C37, the futures phase is about to take a completed future from the
   queue and to leave its promise unsettled, because a future that completed
   after it was cancelled *)
C37_PromiseLeftPending ==
  /\ cx.pc = "futures"
  /\ \E p \in 1..cx.made :
       /\ C37_Completed(cx, p)
       /\ ~Owned(step_inner_futures(cx), p)
       /\ C37_Unsettled(step_inner_futures(cx), p)

(* ------------------- properties: one-shot macrotasks ------------------- *)
(* The macrotasks phase is about to run a macrotask that is due *)
C38_AboutToRun == cx.pc = "macrotasks" /\ cx.macrotasks.due > 0

(* The macrotasks phase leaves no macrotask that was due when it ends well,
   and when it ends with the error of a callback the macrotask of that
   callback, the first it ran, has left the queue *)
C38_Step ==
  C38_AboutToRun =>
    /\ cx'.pc = "rejections" => cx'.macrotasks.due = 0
    /\ cx'.outcome = "err" => cx'.macrotasks.due = cx.macrotasks.due - 1

(* C38: a macrotask that does not repeat is no longer in the queue after
   its callback has run, whether the callback succeeded or threw, so that no
   later poll of the queue runs it again *)
C38_OneShotLeavesQueue == [][C38_Step]_vars

(* C38, what holds: a macrotask whose callback did not throw has left the
   queue *)
C38_LeavesQueueUnlessThrown ==
  [][C38_AboutToRun /\ cx'.pc = "rejections" => cx'.macrotasks.due = 0]_vars

(* C38, the macrotasks phase is about to run a callback that throws and to
   keep its macrotask in the queue, due as before *)
C38_ThrownStays ==
  /\ C38_AboutToRun
  /\ \E eff \in JsEffects :
       /\ eff.op = "throw"
       /\ poll_jobs(cx, eff, FALSE).err
       /\ poll_jobs(cx, eff, FALSE).e.macrotasks.due = cx.macrotasks.due

(* ------------------- permanent heaps of a thread (SpecPH) -------------- *)
(* Runs of the define functions on one thread *)
MaxDefines == 3

NoHeap == 0

(* A thread before any define: the allocator and the traced set as in
   Traced_new, and the thread-local cells STREAM_TEE and STREAM_PIPE_TO, each
   None. The field visited records what the last tracing pass met *)
Permanent_new ==
  [boxes |-> [a \in Addrs |-> Free], set |-> <<>>,
   STREAM_TEE |-> NoHeap, STREAM_PIPE_TO |-> NoHeap,
   defines |-> 0, visited |-> "none"]

(* PermanentHeap::new and from_local: JSHeap::boxed allocates the box at a
   free address a and the address is added to the traced set *)
PermanentHeap_new(x, a, ptr) ==
  [x EXCEPT !.boxes[a] = ptr, !.set = RootedTraceableSet_add(@, a)]

(* A PermanentHeap value goes out of scope: the type has no Drop
   implementation, so its Box is freed and the traced set keeps the entry *)
PermanentHeap_dropped(x, h) ==
  IF h = NoHeap THEN x ELSE [x EXCEPT !.boxes[h] = Free]

(* tee::define: the new PermanentHeap is made first, RefCell::replace puts
   it into STREAM_TEE and returns the old content, which is dropped *)
tee_define(x, a, tee_fn) ==
  LET x1 == PermanentHeap_new(x, a, tee_fn)
      old == x1.STREAM_TEE
  IN PermanentHeap_dropped(
       [x1 EXCEPT !.STREAM_TEE = a, !.defines = @ + 1, !.visited = "none"], old)

(* pipe_through::define, the same with STREAM_PIPE_TO *)
pipe_through_define(x, a, pipe_to_fn) ==
  LET x1 == PermanentHeap_new(x, a, pipe_to_fn)
      old == x1.STREAM_PIPE_TO
  IN PermanentHeap_dropped(
       [x1 EXCEPT !.STREAM_PIPE_TO = a, !.defines = @ + 1, !.visited = "none"], old)

(* A tracing pass of the engine visits the box of every entry of the traced
   set. Reading a freed box is undefined: the pass may see the old bytes and
   go on, or crash *)
TraceOutcomes(x) ==
  IF \A i \in DOMAIN x.set : x.boxes[x.set[i]] # Free
  THEN {"allocated"}
  ELSE {"freed, read as before", "freed, crash"}

InitPH ==
  /\ StreamsIdle
  /\ ts = TransformStream_new(NoTransformer)
  /\ cx = Permanent_new

PHDefineTee ==
  /\ cx.defines < MaxDefines
  /\ \E a \in Addrs \ LiveBoxes(cx), f \in Things :
       CommitCx(tee_define(cx, a, f))

PHDefinePipeThrough ==
  /\ cx.defines < MaxDefines
  /\ \E a \in Addrs \ LiveBoxes(cx), f \in Things :
       CommitCx(pipe_through_define(cx, a, f))

PHTrace ==
  /\ cx.set # <<>>
  /\ \E o \in TraceOutcomes(cx) : CommitCx([cx EXCEPT !.visited = o])

NextPH == PHDefineTee \/ PHDefinePipeThrough \/ PHTrace

SpecPH == InitPH /\ [][NextPH]_vars

(* C39: every entry of the traced set refers to a box that is allocated, so
   that no tracing pass visits a freed box, also when the define that stores
   a PermanentHeap in a thread-local cell runs more than once on the thread *)
C39_EntriesAllocated ==
  /\ \A i \in DOMAIN cx.set : cx.boxes[cx.set[i]] # Free
  /\ cx.visited \in {"none", "allocated"}

(* C39, what holds: the box of the PermanentHeap a cell holds is allocated
   and in the traced set, and the set has one entry for every PermanentHeap
   that was made *)
C39_CellsAllocated ==
  /\ \A h \in {cx.STREAM_TEE, cx.STREAM_PIPE_TO} \ {NoHeap} :
       cx.boxes[h] # Free /\ Entries(cx.set, h) >= 1
  /\ Len(cx.set) = cx.defines

(* C39, tee::define ran twice and a tracing pass then visited the freed box
   of the first PermanentHeap *)
C39_TracedFreedBox ==
  /\ cx.defines = 2 /\ cx.STREAM_TEE # NoHeap /\ cx.STREAM_PIPE_TO = NoHeap
  /\ cx.visited = "freed, crash"

(* ---------------- AbortController and its signals (SpecAb) ------------- *)
(* AbortSignal objects script may obtain, and abort calls it may make *)
MaxSignals == 2
MaxAborts == 2

UndefinedValue == "undefined"
AbortError == "AbortError"
AbortReasons == {"r1", "r2"}
NoArgument == "no argument"

(* AbortController::constructor: the watch channel holds None. signals are
   the AbortSignal objects made so far, each with what its last poll gave;
   aborts counts the abort calls *)
AbortController_new ==
  [sender |-> UndefinedValue, signals |-> <<>>, aborts |-> 0]

(* AbortController::get_signal: a new AbortSignal with a receiver of the
   channel *)
get_signal(x) ==
  [x EXCEPT !.signals = Append(@, [signal |-> "Receiver", abort |-> UndefinedValue,
                                   polled |-> "never"])]

(* AbortController::abort: send_replace puts the reason, or an AbortError
   when there is none, into the channel *)
AbortController_abort(x, reason) ==
  [x EXCEPT !.sender = IF reason = NoArgument THEN AbortError ELSE reason,
            !.aborts = @ + 1]

(* AbortSignal::abort, the static method: a new signal that holds the reason *)
AbortSignal_abort(x, reason) ==
  [x EXCEPT !.signals =
     Append(@, [signal |-> "Abort",
                abort |-> IF reason = NoArgument THEN AbortError ELSE reason,
                polled |-> "never"])]

(* AbortSignal::get_reason *)
get_reason(x, s) ==
  IF x.signals[s].signal = "Abort" THEN x.signals[s].abort ELSE x.sender

(* AbortSignal::get_aborted *)
get_aborted(x, s) == get_reason(x, s) # UndefinedValue

(* SignalFuture::poll: Ready with the reason once there is one *)
SignalFuture_poll(x, s) ==
  [x EXCEPT !.signals[s].polled =
     IF get_aborted(x, s) THEN get_reason(x, s) ELSE "Pending"]

InitAb ==
  /\ StreamsIdle
  /\ ts = TransformStream_new(NoTransformer)
  /\ cx = AbortController_new

AbGetSignal ==
  /\ Len(cx.signals) < MaxSignals
  /\ CommitCx(get_signal(cx))

AbStaticAbort ==
  /\ Len(cx.signals) < MaxSignals
  /\ \E r \in AbortReasons \cup {NoArgument} : CommitCx(AbortSignal_abort(cx, r))

AbAbort ==
  /\ cx.aborts < MaxAborts
  /\ \E r \in AbortReasons \cup {NoArgument} : CommitCx(AbortController_abort(cx, r))

AbPoll ==
  \E s \in DOMAIN cx.signals : CommitCx(SignalFuture_poll(cx, s))

NextAb == AbGetSignal \/ AbStaticAbort \/ AbAbort \/ AbPoll

SpecAb == InitAb /\ [][NextAb]_vars

(* A signal that reports aborted keeps reporting aborted, with the same
   reason *)
C40_Step ==
  \A s \in DOMAIN cx.signals :
    get_aborted(cx, s) =>
      /\ get_aborted(cx', s)
      /\ get_reason(cx', s) = get_reason(cx, s)

(* C40: aborting is idempotent: once a signal reports aborted its reason
   never changes and it never stops reporting aborted; a second abort(r2)
   after abort(r1) leaves the signals of the controller reporting r1 *)
C40_AbortIsIdempotent == [][C40_Step]_vars

(* C40, what holds for the reasons of the model, none of which is
   undefined: a signal that reports aborted never stops doing so, and a
   signal made by the static AbortSignal.abort keeps its reason *)
C40_StaysAborted ==
  [][\A s \in DOMAIN cx.signals :
       /\ get_aborted(cx, s) => get_aborted(cx', s)
       /\ cx.signals[s].signal = "Abort" =>
            get_reason(cx', s) = get_reason(cx, s)]_vars

(* C40, a signal of the controller whose poll gave r1 reports r2 after the
   second abort *)
C40_ReasonReplaced ==
  \E s \in DOMAIN cx.signals :
    /\ cx.signals[s].signal = "Receiver" /\ cx.aborts = 2
    /\ cx.signals[s].polled = "r1" /\ get_reason(cx, s) = "r2"

====
